---- MODULE Spec2Model ----
(***************************************************************************)
(* Model of the Google Drive synchronization engine of the school admin    *)
(* bot: the scheduled pass (SchoolAdminBot.sync_folder_job), the on-demand *)
(* pass (SchoolAdminBot.sync_drive), the notification-triggered pass       *)
(* (webhook_handler.process_drive_changes / sync_changed_files), the       *)
(* relational store they share (database.Database) and the access filter   *)
(* (SchoolAdminBot._filter_entries_by_folder_access).                      *)
(***************************************************************************)
EXTENDS Integers, Sequences, FiniteSets, TLC

-----------------------------------------------------------------------------
(* Bounds of the model *)

\* passes (of any kind) started in one behaviour
MaxPasses == 2
\* concurrently running notification threads
MaxThreads == 1
\* change records in the external change feed
MaxFeed == 1
\* calendar days a behaviour spans
MaxDay == 2
\* failures (of a download, of a call) the environment injects in one behaviour
MaxFaults == 1
\* the manual uploads of a day
MaxUploads == 1
\* the channels the model registers or renews
MaxChannels == 2
\* the folders of the longest parent chain put to the walk
MaxChain == 12

-----------------------------------------------------------------------------
(* Strings as sequences of characters *)

Digits == <<"0", "1", "2", "3", "4", "5", "6", "7", "8", "9">>

IsDigit(c) == \E i \in 1..10 : Digits[i] = c

DigitVal(c) == (CHOOSE i \in 1..10 : Digits[i] = c) - 1

\* int(s) of a string of decimal digits
RECURSIVE ParseInt(_)
ParseInt(s) ==
    IF s = <<>> THEN 0
    ELSE 10 * ParseInt(SubSeq(s, 1, Len(s) - 1)) + DigitVal(s[Len(s)])

\* str.lower() on the characters the model uses
LowerChar(c) ==
    CASE c = "P" -> "p"
      [] c = "D" -> "d"
      [] c = "F" -> "f"
      [] c = "A" -> "a"
      [] c = "B" -> "b"
      [] OTHER -> c

Lower(s) == [i \in 1..Len(s) |-> LowerChar(s[i])]

EndsWith(s, suffix) ==
    /\ Len(s) >= Len(suffix)
    /\ SubSeq(s, Len(s) - Len(suffix) + 1, Len(s)) = suffix

DotPdf == <<".", "p", "d", "f">>

-----------------------------------------------------------------------------
(* Calendar *)

\* the local (Singapore) date of model day n: 5 March 2025 is day 1
DateOf(n) == [day |-> 4 + n, month |-> 3, year |-> 2025]

-----------------------------------------------------------------------------
(* _is_todays_event_pdf *)

\* the regular expression ^(\d{2})_(\d{2})_(\d{2,4})_(.+)\.pdf$ with
\* re.IGNORECASE: the length k of the year group when the name matches, else 0
EventNameYearLen(filename) ==
    LET ok(k) ==
            /\ Len(filename) >= 7 + k + 1 + 4
            /\ IsDigit(filename[1]) /\ IsDigit(filename[2])
            /\ filename[3] = "_"
            /\ IsDigit(filename[4]) /\ IsDigit(filename[5])
            /\ filename[6] = "_"
            /\ \A i \in 7..(6 + k) : IsDigit(filename[i])
            /\ filename[7 + k] = "_"
            /\ EndsWith(Lower(filename), DotPdf)
    IN  IF \E k \in 2..4 : ok(k) THEN CHOOSE k \in 2..4 : ok(k) ELSE 0

\* eventname.strip('_').replace('_', ' ')
RECURSIVE StripLeft(_)
StripLeft(s) == IF s # <<>> /\ s[1] = "_" THEN StripLeft(Tail(s)) ELSE s

RECURSIVE StripRight(_)
StripRight(s) ==
    IF s # <<>> /\ s[Len(s)] = "_" THEN StripRight(SubSeq(s, 1, Len(s) - 1)) ELSE s

EventTitle(s) ==
    LET t == StripRight(StripLeft(s))
    IN  [i \in 1..Len(t) |-> IF t[i] = "_" THEN " " ELSE t[i]]

NoMatch == [is_match |-> FALSE, event_name |-> <<>>]

\* variant that compares day and month only
_is_todays_event_pdf_noyear(filename, today) ==
    LET k == EventNameYearLen(filename)
    IN  IF filename = <<>> \/ ~EndsWith(Lower(filename), DotPdf) \/ k = 0
        THEN NoMatch
        ELSE IF <<ParseInt(SubSeq(filename, 1, 2)), ParseInt(SubSeq(filename, 4, 5))>>
                    = <<today.day, today.month>>
             THEN [is_match |-> TRUE,
                   event_name |-> EventTitle(SubSeq(filename, 8 + k, Len(filename) - 4))]
             ELSE NoMatch

\* (is_match, event_name) for a file name on the local date today
_is_todays_event_pdf(filename, today) ==
    LET k == EventNameYearLen(filename)
    IN  IF filename = <<>> \/ ~EndsWith(Lower(filename), DotPdf) \/ k = 0
        THEN NoMatch
        ELSE LET day   == ParseInt(SubSeq(filename, 1, 2))
                 month == ParseInt(SubSeq(filename, 4, 5))
                 yy    == SubSeq(filename, 7, 6 + k)
                 year  == IF k = 2 THEN 2000 + ParseInt(yy) ELSE ParseInt(yy)
             IN  IF <<day, month, year>> = <<today.day, today.month, today.year>>
                 THEN [is_match |-> TRUE,
                       event_name |->
                           EventTitle(SubSeq(filename, 8 + k, Len(filename) - 4))]
                 ELSE NoMatch

-----------------------------------------------------------------------------
(* The external file store (Google Drive), unchanged during a behaviour *)

GOOGLE_DRIVE_ROOT_FOLDER_ID == "ROOT"

FOLDER_MIME   == "application/vnd.google-apps.folder"
SHORTCUT_MIME == "application/vnd.google-apps.shortcut"
DOC_MIME      == "application/vnd.google-apps.document"
SHEET_MIME    == "application/vnd.google-apps.spreadsheet"
SLIDES_MIME   == "application/vnd.google-apps.presentation"
PDF_MIME      == "application/pdf"
PNG_MIME      == "image/png"
ZIP_MIME      == "application/zip"

\* mime_type.startswith('image/')
IsImageMime(m) == m = PNG_MIME

TodaysEvent == "Today's Event"
ReliefCommittee == "Relief Committee"
StudentMovement == "Student Movement"
WeeklyBulletin == "Weekly Bulletin"

\* str.lower() on the folder names the model uses
LowerName(n) ==
    CASE n = "Today's Event"    -> "today's event"
      [] n = "Relief Committee" -> "relief committee"
      [] n = "Student Movement" -> "student movement"
      [] n = "Weekly Bulletin"  -> "weekly bulletin"
      [] n = "Elsewhere"        -> "elsewhere"
      [] OTHER                  -> n

NoTarget == "none"

Obj(name, mime, parents, target) ==
    [name |-> name, mimeType |-> mime, parents |-> parents, targetId |-> target]

\* files().get(fileId): the metadata of every object of the store.
\*   ROOT/Today's Event:     e1 = 05_03_25_a.pdf, e2 = 06_03_2025_b.PDF
\*   ROOT/Relief Committee:  r1 (document), s1 (shortcut to x1), r2 (image)
\*   ROOT/weekly bulletin:   b1 (shortcut to the image r2), b2 (shortcut to the
\*                           shortcut s1); the store spells the name in lower case
\*   .../Relief Committee/Archive (fSub): u1 (document), z1 (archive),
\*                           z2 = z2.pdf (an archive named as a PDF)
\*   OTHER/fOut:             x1 (a PDF outside the root tree)
DriveMeta ==
    [id \in {"ROOT", "OTHER", "fEvt", "fRel", "fBul", "fOut", "fSub",
             "e1", "e2", "r1", "s1", "r2", "x1", "b1", "b2", "u1", "z1", "z2"} |->
        CASE id = "ROOT"  -> Obj("root", FOLDER_MIME, <<>>, NoTarget)
          [] id = "OTHER" -> Obj("other", FOLDER_MIME, <<>>, NoTarget)
          [] id = "fEvt"  -> Obj(TodaysEvent, FOLDER_MIME, <<"ROOT">>, NoTarget)
          [] id = "fRel"  -> Obj(ReliefCommittee, FOLDER_MIME, <<"ROOT">>, NoTarget)
          [] id = "fBul"  -> Obj("weekly bulletin", FOLDER_MIME, <<"ROOT">>, NoTarget)
          [] id = "fOut"  -> Obj("Elsewhere", FOLDER_MIME, <<"OTHER">>, NoTarget)
          [] id = "e1"    -> Obj(<<"0", "5", "_", "0", "3", "_", "2", "5", "_", "a",
                                   ".", "p", "d", "f">>, PDF_MIME, <<"fEvt">>, NoTarget)
          [] id = "e2"    -> Obj(<<"0", "6", "_", "0", "3", "_", "2", "0", "2", "5", "_",
                                   "b", ".", "P", "D", "F">>, PDF_MIME, <<"fEvt">>, NoTarget)
          [] id = "r1"    -> Obj(<<"r", "1">>, DOC_MIME, <<"fRel">>, NoTarget)
          [] id = "s1"    -> Obj(<<"s", "1">>, SHORTCUT_MIME, <<"fRel">>, "x1")
          [] id = "r2"    -> Obj(<<"r", "2", ".", "p", "n", "g">>, PNG_MIME, <<"fRel">>, NoTarget)
          [] id = "x1"    -> Obj(<<"x", "1", ".", "p", "d", "f">>, PDF_MIME, <<"fOut">>, NoTarget)
          [] id = "b1"    -> Obj(<<"b", "1">>, SHORTCUT_MIME, <<"fBul">>, "r2")
          [] id = "b2"    -> Obj(<<"b", "2">>, SHORTCUT_MIME, <<"fBul">>, "s1")
          [] id = "fSub"  -> Obj("Archive", FOLDER_MIME, <<"fRel">>, NoTarget)
          [] id = "u1"    -> Obj(<<"u", "1">>, DOC_MIME, <<"fSub">>, NoTarget)
          [] id = "z1"    -> Obj(<<"z", "1">>, ZIP_MIME, <<"fSub">>, NoTarget)
          [] id = "z2"    -> Obj(<<"z", "2", ".", "p", "d", "f">>, ZIP_MIME, <<"fSub">>, NoTarget)]

DriveIds == DOMAIN DriveMeta

\* the order in which files().list returns the objects
DriveOrder == <<"fEvt", "fRel", "fBul", "fOut", "fSub", "e1", "e2", "r1", "s1", "r2",
                "x1", "b1", "b2", "u1", "z1", "z2">>

InSeq(x, s) == \E i \in 1..Len(s) : s[i] = x

RECURSIVE FilterSeq(_, _)
FilterSeq(s, keep) ==
    IF s = <<>> THEN <<>>
    ELSE IF Head(s) \in keep THEN <<Head(s)>> \o FilterSeq(Tail(s), keep)
         ELSE FilterSeq(Tail(s), keep)

\* DriveSync.list_folders(parent): the folders directly under parent
list_folders(parent) ==
    FilterSeq(DriveOrder, {id \in DriveIds : /\ InSeq(parent, DriveMeta[id].parents)
                                             /\ DriveMeta[id].mimeType = FOLDER_MIME})

\* DriveSync.get_folder_by_name(name): the first folder under the root whose
\* lower-cased name is the lower-cased name asked for, or "none"
get_folder_by_name_drive(folder_name) ==
    LET hits == FilterSeq(list_folders(GOOGLE_DRIVE_ROOT_FOLDER_ID),
                          {id \in DriveIds :
                              LowerName(DriveMeta[id].name) = LowerName(folder_name)})
    IN  IF hits = <<>> THEN "none" ELSE Head(hits)

\* DriveSync.list_files_in_folder(folder_id), recursive = False: the objects
\* directly under the folder that are not folders
list_files_in_folder(folder_id) ==
    FilterSeq(DriveOrder, {id \in DriveIds : /\ InSeq(folder_id, DriveMeta[id].parents)
                                             /\ DriveMeta[id].mimeType # FOLDER_MIME})

\* DriveSync.resolve_shortcut(file_id): the target of a shortcut, or "none"
resolve_shortcut(file_id) ==
    IF DriveMeta[file_id].mimeType = SHORTCUT_MIME /\ DriveMeta[file_id].targetId # NoTarget
    THEN DriveMeta[file_id].targetId
    ELSE "none"

\* DriveSync.get_file_content(file): the id of the object whose bytes are
\* returned (shortcuts are followed recursively), or "none" (None)
RECURSIVE get_file_content(_)
get_file_content(file_id) ==
    IF DriveMeta[file_id].mimeType = SHORTCUT_MIME
    THEN IF resolve_shortcut(file_id) # "none"
         THEN get_file_content(resolve_shortcut(file_id))
         ELSE "none"
    ELSE file_id

\* DriveSync.detect_file_category(file_name, folder_name): every folder name of
\* the model is decided by the folder-name rules, which come first
detect_file_category(file_name, folder_name) ==
    CASE folder_name = ReliefCommittee -> "RELIEF"
      [] folder_name = TodaysEvent     -> "EVENT"
      [] OTHER                         -> "GENERAL"

-----------------------------------------------------------------------------
(* The relational store (database.Database) *)

VARIABLES
    today,              \* the current day (date.today(), get_singapore_now().date())
    clock,              \* CURRENT_TIMESTAMP: ticks whenever a pass or a request starts
    drive_folders,      \* table drive_folders
    folder_role_access, \* table folder_role_access
    daily_entries,      \* table daily_entries
    entry_seq,          \* the SERIAL sequence of daily_entries.id
    drive_sync_log,     \* table drive_sync_log, in insertion order
    drive_webhooks,     \* table drive_webhooks
    shortcut_targets,   \* table shortcut_targets
    feed,               \* the external change feed
    main,               \* the pass running on the bot's event loop
    threads,            \* the notification passes, one per background thread
    query,              \* the last access-filtered query: role, entries, result
    probe,              \* the last file name put to the date filter, and the answer
    faults,             \* the failures injected so far
    hour,               \* the wall clock of the subscription timers, in hours
    renewal,            \* the renewal sweep in progress on the bot's event loop
    response,           \* the status of the endpoint's last HTTP response
    walk                \* the last walk up a parent chain: its input and answer

vars == <<today, clock, drive_folders, folder_role_access, daily_entries, entry_seq,
          drive_sync_log, drive_webhooks, shortcut_targets, feed, main, threads, query,
          probe, faults, hour, renewal, response, walk>>

\* no renewal sweep in progress
NoRenewal == [pc |-> "idle", channel_id |-> 0, folder_id |-> "none", page_token |-> 0]

\* The administrative commands (/setfolder, the registration of a channel, the
\* tracking of a shortcut) are issued before the first pass starts and before
\* the store reports its first change.
Setup == clock = 0 /\ feed = <<>>

\* SUPER_ADMIN_IDS[0], the user scheduled and notification passes write as
SyncUser == 1

\* table users: telegram_id -> role
Users == [u \in 1..5 |->
            CASE u = 1 -> "superadmin"
              [] u = 2 -> "viewer"
              [] u = 3 -> "student_admin"
              [] u = 4 -> "admin"
              [] u = 5 -> "relief_member"]

\* the users who call /sync: one of the allowed roles and two that are refused
SyncCallers == {1, 2, 3}

NoFolder == [id |-> 0, folder_name |-> "", drive_folder_id |-> "",
             parent_folder_id |-> "", last_synced_at |-> 0]

\* Database.add_or_update_drive_folder: INSERT ... ON CONFLICT (drive_folder_id)
\* DO UPDATE SET folder_name, parent_folder_id
add_or_update_drive_folder(T, folder_name, drive_folder_id, parent_folder_id) ==
    IF \E r \in T : r.drive_folder_id = drive_folder_id
    THEN {IF r.drive_folder_id = drive_folder_id
          THEN [r EXCEPT !.folder_name = folder_name,
                         !.parent_folder_id = parent_folder_id]
          ELSE r : r \in T}
    ELSE T \cup {[id |-> Cardinality(T) + 1, folder_name |-> folder_name,
                  drive_folder_id |-> drive_folder_id,
                  parent_folder_id |-> parent_folder_id, last_synced_at |-> 0]}

\* Database.get_folder_by_name
get_folder_by_name(T, folder_name) ==
    IF \E r \in T : r.folder_name = folder_name
    THEN CHOOSE r \in T : r.folder_name = folder_name
    ELSE NoFolder

\* Database.get_folder_by_drive_id
get_folder_by_drive_id(T, drive_folder_id) ==
    IF \E r \in T : r.drive_folder_id = drive_folder_id
    THEN CHOOSE r \in T : r.drive_folder_id = drive_folder_id
    ELSE NoFolder

\* Database.get_all_folders: ORDER BY folder_name
RECURSIVE get_all_folders(_)
get_all_folders(T) ==
    IF T = {} THEN <<>>
    ELSE LET NameRank(n) == CASE n = ReliefCommittee -> 1
                              [] n = StudentMovement -> 2
                              [] n = TodaysEvent -> 3
                              [] LowerName(n) = LowerName(WeeklyBulletin) -> 4
                              [] OTHER -> 5
             first == CHOOSE r \in T :
                          \A q \in T : NameRank(r.folder_name) <= NameRank(q.folder_name)
         IN  <<first>> \o get_all_folders(T \ {first})

\* Database.set_folder_role_access: replaces the folder's rows
set_folder_role_access(A, folder_id, roles) ==
    {a \in A : a.folder_id # folder_id}
        \cup {[folder_id |-> folder_id, role |-> r] : r \in roles}

\* Database.get_folder_with_roles(folder_id)["roles"]
get_folder_with_roles(A, folder_id) == {a.role : a \in {b \in A : b.folder_id = folder_id}}

\* Database.update_folder_sync_time
update_folder_sync_time(T, folder_id, now) ==
    {IF r.id = folder_id THEN [r EXCEPT !.last_synced_at = now] ELSE r : r \in T}

\* errors[-10:]
Last10(errors) ==
    IF Len(errors) <= 10 THEN errors ELSE SubSeq(errors, Len(errors) - 9, Len(errors))

\* Database.log_sync: one more row
log_sync(L, date, folder_id, files_synced, files_processed, errors, synced_by, now) ==
    Append(L, [date |-> date, folder_id |-> folder_id, files_synced |-> files_synced,
               files_processed |-> files_processed, errors |-> errors,
               synced_by |-> synced_by, synced_at |-> now])

\* Database.add_entry: always a new row
add_entry(E, id, date, uploaded_by, tag, content, now) ==
    E \cup {[id |-> id, date |-> date, tag |-> tag, content |-> content,
             uploaded_by |-> uploaded_by, timestamp |-> now]}

\* Database.add_or_update_drive_entry: the upsert keyed by
\* (date, content.drive_file_id)
add_or_update_drive_entry(E, id, date, uploaded_by, tag, content, now) ==
    LET same(e) == e.date = date /\ e.content.drive_file_id = content.drive_file_id
    IN  IF \E e \in E : same(e)
        THEN {IF same(e)
              THEN [e EXCEPT !.tag = tag, !.content = content, !.timestamp = now]
              ELSE e : e \in E}
        ELSE add_entry(E, id, date, uploaded_by, tag, content, now)

\* Database.purge_old_data: DELETE FROM daily_entries WHERE date < today
purge_old_data(E, date) == {e \in E : ~(e.date < date)}

\* Database.save_shortcut_target: INSERT ... ON CONFLICT (shortcut_id,
\* target_file_id) DO UPDATE SET shortcut_name, target_file_name
save_shortcut_target(S, shortcut_id, target_file_id, watched_folder_id) ==
    IF \E r \in S : r.shortcut_id = shortcut_id /\ r.target_file_id = target_file_id
    THEN S
    ELSE S \cup {[shortcut_id |-> shortcut_id, target_file_id |-> target_file_id,
                  watched_folder_id |-> watched_folder_id]}

\* Database.get_shortcut_by_target: the rows LIMIT 1 chooses among
get_shortcut_by_target(S, target_file_id) == {r \in S : r.target_file_id = target_file_id}

\* Database.get_all_active_webhooks
get_all_active_webhooks(W) == {w \in W : w.active}

\* Database.update_webhook_page_token
update_webhook_page_token(W, channel_id, page_token) ==
    {IF w.channel_id = channel_id THEN [w EXCEPT !.page_token = page_token] ELSE w : w \in W}

-----------------------------------------------------------------------------
(* A sync pass in progress *)

\* kind: "none", "scheduled", "ondemand", "webhook".  files: the candidate
\* files; i: the next one; outcomes, wrote, day: what happened to each file so
\* far, which candidates (by position) this pass saved, and the day it started.
Idle == [kind |-> "none", pc |-> "idle", user |-> 0, channel_id |-> 0,
         page_token |-> 0, new_page_token |-> 0, changes |-> <<>>,
         folder |-> NoFolder, todo |-> <<>>, files |-> <<>>, i |-> 0, processed |-> 0,
         errors |-> <<>>, outcomes |-> <<>>, wrote |-> {}, day |-> 0]

\* a candidate file as the passes carry it
\* (shortcut_info is the key '_shortcut_info', "none" when the key is absent)
FileDict(id, in_subfolder, is_shortcut_target) ==
    [id |-> id, in_subfolder |-> in_subfolder, is_shortcut_target |-> is_shortcut_target,
     shortcut_info |-> "none"]

RECURSIVE PlainFiles(_)
PlainFiles(ids) ==
    IF ids = <<>> THEN <<>>
    ELSE <<FileDict(Head(ids), FALSE, FALSE)>> \o PlainFiles(Tail(ids))

\* the bytes get_file_content returns for the file it ends at, by their
\* format: a Google document or presentation is exported as PDF, a
\* spreadsheet as CSV, anything else is downloaded as it is
ContentFormat(target_id) ==
    LET mime == DriveMeta[target_id].mimeType
    IN  IF mime = SHEET_MIME THEN "csv"
        ELSE IF mime \in {DOC_MIME, SLIDES_MIME, PDF_MIME} THEN "pdf"
        ELSE IF IsImageMime(mime) THEN "image"
        ELSE "other"

\* "Process based on file type": the branch a pass takes for a listed file,
\* chosen by the listed file's own mimeType and name (and, in the last branch,
\* by the first bytes of the content)
ExtractionRoute(file_id) ==
    LET mime == DriveMeta[file_id].mimeType
        name == DriveMeta[file_id].name
        fmt  == ContentFormat(get_file_content(file_id))
    IN  IF IsImageMime(mime) THEN "analyze_image"
        ELSE IF mime = PDF_MIME \/ EndsWith(Lower(name), DotPdf) THEN "analyze_pdf"
        ELSE IF mime = SHEET_MIME \/ mime = "text/plain" THEN "decode"
        ELSE IF fmt = "pdf" THEN "analyze_pdf"
        ELSE IF fmt = "csv" THEN "decode"
        ELSE "binary_placeholder"

\* SchoolAdminBot.analyze_image, analyze_pdf: the text read off the bytes; an
\* exception inside is caught there and the text "[... analysis failed: ...]"
\* is returned in its place
analyze(route, bytes, raises) ==
    [by |-> route, of |-> bytes, text |-> IF raises THEN "analysis_failed" ELSE "read"]

\* extracted_text of a listed file
extracted_text(file_id, raises) ==
    LET route == ExtractionRoute(file_id)
        bytes == get_file_content(file_id)
    IN  IF route \in {"analyze_image", "analyze_pdf"}
        THEN analyze(route, bytes, raises)
        ELSE [by |-> route, of |-> bytes, text |-> "read"]

\* what can happen to one file: its content is fetched and the entry saved
\* ("ok"), get_file_content returns nothing ("download_failed"), a call raises
\* into the loop's handler ("exception"), or the analysis of the image or PDF
\* raises ("analysis_failed"); a shortcut that does not resolve yields no
\* content
Outcomes(file_id) ==
    IF get_file_content(file_id) = "none" THEN {"download_failed"}
    ELSE {"ok", "download_failed", "exception"}
            \cup IF ExtractionRoute(file_id) \in {"analyze_image", "analyze_pdf"}
                 THEN {"analysis_failed"} ELSE {}

\* the outcomes after which the loop goes on to save the entry
SavedOutcomes == {"ok", "analysis_failed"}

\* the environment's failure budget: a failure that is no consequence of the
\* store's content (an unresolvable shortcut) counts against MaxFaults
Injected(outcome, file_id) ==
    IF outcome = "ok" \/ get_file_content(file_id) = "none"
    THEN faults' = faults
    ELSE faults < MaxFaults /\ faults' = faults + 1

FileType(mime) == IF IsImageMime(mime) THEN "photo" ELSE "document"

\* content_data of a synced entry
\* (folder is the display path "name" or "name/subfolder", as a tuple of names)
ContentData(source, folder, drive_folder_id, file_id) ==
    [type |-> FileType(DriveMeta[file_id].mimeType), source |-> source,
     extracted_text |-> extracted_text(file_id, FALSE),
     folder |-> folder, drive_folder_id |-> drive_folder_id, drive_file_id |-> file_id]

\* content_data as the outcome of the file's analysis leaves it
Analysed(content, outcome) ==
    [content EXCEPT !.extracted_text =
                        extracted_text(content.drive_file_id, outcome = "analysis_failed")]

\* variant: the failure is recorded and the loop is left
file_failed_abort(p, file_id, outcome) ==
    [p EXCEPT !.i = Len(p.files) + 1,
              !.errors = Append(@, [file |-> file_id, why |-> outcome]),
              !.outcomes = Append(@, outcome)]

\* errors.append(...); continue
file_failed(p, file_id, outcome) ==
    [p EXCEPT !.i = @ + 1,
              !.errors = Append(@, [file |-> file_id, why |-> outcome]),
              !.outcomes = Append(@, outcome)]

\* variant: the entry is saved and the counter is left as it was
file_saved_uncounted(p) ==
    [p EXCEPT !.i = @ + 1,
              !.wrote = @ \cup {p.i}, !.outcomes = Append(@, "ok")]

\* the counter incremented after the entry is saved
file_saved(p) ==
    [p EXCEPT !.i = @ + 1, !.processed = @ + 1,
              !.wrote = @ \cup {p.i}, !.outcomes = Append(@, "ok")]

\* the files of the Today's Event folder that pass the date filter
RECURSIVE TodaysEventFiles(_, _)
TodaysEventFiles(ids, date) ==
    IF ids = <<>> THEN <<>>
    ELSE IF _is_todays_event_pdf(DriveMeta[Head(ids)].name, date).is_match
         THEN <<Head(ids)>> \o TodaysEventFiles(Tail(ids), date)
         ELSE TodaysEventFiles(Tail(ids), date)

\* the SERIAL id consumed when a row is inserted
NextSeq(E, E2, seq) == IF Cardinality(E2) > Cardinality(E) THEN seq + 1 ELSE seq

-----------------------------------------------------------------------------
(* Folder configuration: SchoolAdminBot.set_folder (/setfolder, superadmin) *)

valid_roles == {"viewer", "relief_member", "admin", "student_admin", "superadmin"}

set_folder(user_id, folder_name, roles) ==
    /\ Setup
    /\ Users[user_id] = "superadmin"
    /\ roles # {} /\ roles \subseteq valid_roles
    /\ get_folder_by_name_drive(folder_name) # "none"
    /\ LET drive_folder == get_folder_by_name_drive(folder_name)
           T1 == add_or_update_drive_folder(drive_folders, DriveMeta[drive_folder].name,
                                            drive_folder, GOOGLE_DRIVE_ROOT_FOLDER_ID)
           folder_id == get_folder_by_drive_id(T1, drive_folder).id
       IN  /\ drive_folders' = T1
           /\ folder_role_access' = set_folder_role_access(folder_role_access, folder_id, roles)
    /\ <<drive_folders', folder_role_access'>> # <<drive_folders, folder_role_access>>
    /\ UNCHANGED <<today, clock, daily_entries, entry_seq, drive_sync_log, drive_webhooks,
                   shortcut_targets, feed, main, threads, query, probe, faults,
                   hour, renewal, response, walk>>

-----------------------------------------------------------------------------
(* The scheduled pass: SchoolAdminBot.sync_folder_job *)

\* the folder names of SYNC_SCHEDULE that exist in the model's store
SYNC_SCHEDULE == {ReliefCommittee, WeeklyBulletin, TodaysEvent}

\* the scheduled folders of the school's daily material, whose jobs and
\* /setfolder commands the passes of Spec and of SpecRenew are run with
EngineFolders == {ReliefCommittee, TodaysEvent}

\* a scheduled pass that saves every file as a new row
save_entry_scheduled_insert(E, id, date, uploaded_by, tag, content, now) ==
    add_entry(E, id, date, uploaded_by, tag, content, now)

\* sync_folder_job: the upsert when the file id is present, else a plain insert
save_entry_scheduled(E, id, date, uploaded_by, tag, content, now) ==
    IF content.drive_file_id # ""
    THEN add_or_update_drive_entry(E, id, date, uploaded_by, tag, content, now)
    ELSE add_entry(E, id, date, uploaded_by, tag, content, now)

\* the job starts: the folder is looked up (and discovered by name if it is not
\* registered), its files are listed and, for Today's Event, date-filtered
sync_folder_job(folder_name) ==
    /\ main.kind = "none"
    /\ clock < MaxPasses
    /\ LET now == clock + 1
           drive_folder == get_folder_by_name_drive(folder_name)
           T1 == IF get_folder_by_name(drive_folders, folder_name) = NoFolder
                    /\ drive_folder # "none"
                 THEN add_or_update_drive_folder(drive_folders, folder_name, drive_folder,
                                                 GOOGLE_DRIVE_ROOT_FOLDER_ID)
                 ELSE drive_folders
           folder == get_folder_by_name(T1, folder_name)
           listed == list_files_in_folder(folder.drive_folder_id)
           files  == IF folder_name = TodaysEvent
                     THEN TodaysEventFiles(listed, DateOf(today))
                     ELSE listed
       IN  /\ clock' = now
           /\ IF folder = NoFolder
              THEN /\ drive_folders' = T1
                   /\ UNCHANGED <<drive_sync_log, main>>
              ELSE IF listed = <<>>
              THEN /\ drive_folders' = update_folder_sync_time(T1, folder.id, now)
                   /\ drive_sync_log' = log_sync(drive_sync_log, today, folder.id,
                                                 0, 0, <<>>, SyncUser, now)
                   /\ UNCHANGED main
              ELSE /\ drive_folders' = T1
                   /\ main' = [Idle EXCEPT !.kind = "scheduled", !.pc = "files",
                                           !.user = SyncUser, !.folder = folder,
                                           !.files = PlainFiles(files), !.i = 1,
                                           !.day = today]
                   /\ UNCHANGED drive_sync_log
    /\ UNCHANGED <<today, folder_role_access, daily_entries, entry_seq, drive_webhooks,
                   shortcut_targets, feed, threads, query, probe, faults,
                   hour, renewal, response, walk>>

\* one iteration of the job's loop over the files
sync_folder_job_file ==
    /\ main.kind = "scheduled"
    /\ main.i <= Len(main.files)
    /\ LET file == main.files[main.i]
           tag  == detect_file_category(DriveMeta[file.id].name, main.folder.folder_name)
           content == ContentData("google_drive_scheduled", <<main.folder.folder_name>>,
                                  main.folder.drive_folder_id, file.id)
           E2(outcome) == save_entry_scheduled(daily_entries, entry_seq, today, main.user,
                                               tag, Analysed(content, outcome), clock)
       IN  \E outcome \in Outcomes(file.id) :
              /\ Injected(outcome, file.id)
              /\ IF outcome \in SavedOutcomes
                 THEN /\ daily_entries' = E2(outcome)
                      /\ entry_seq' = NextSeq(daily_entries, E2(outcome), entry_seq)
                      /\ main' = file_saved(main)
                 ELSE /\ main' = file_failed(main, file.id, outcome)
                      /\ UNCHANGED <<daily_entries, entry_seq>>
    /\ UNCHANGED <<today, clock, drive_folders, folder_role_access, drive_sync_log,
                   drive_webhooks, shortcut_targets, feed, threads, query, probe,
                   hour, renewal, response, walk>>

\* after the loop: the folder's sync time and the sync log row
sync_folder_job_finish ==
    /\ main.kind = "scheduled"
    /\ main.i > Len(main.files)
    /\ drive_folders' = update_folder_sync_time(drive_folders, main.folder.id, clock)
    /\ drive_sync_log' = log_sync(drive_sync_log, today, main.folder.id, Len(main.files),
                                  main.processed, Last10(main.errors), main.user, clock)
    /\ main' = Idle
    /\ UNCHANGED <<today, clock, folder_role_access, daily_entries, entry_seq,
                   drive_webhooks, shortcut_targets, feed, threads, query, probe, faults,
                   hour, renewal, response, walk>>

-----------------------------------------------------------------------------
(* The on-demand pass: SchoolAdminBot.sync_drive *)

\* the roles allowed to run /sync
SyncRoles == {"relief_member", "admin", "superadmin"}

\* every folder the root lists, registered
RECURSIVE discover_folders(_, _)
discover_folders(T, ids) ==
    IF ids = <<>> THEN T
    ELSE discover_folders(
             add_or_update_drive_folder(T, DriveMeta[Head(ids)].name, Head(ids),
                                        GOOGLE_DRIVE_ROOT_FOLDER_ID),
             Tail(ids))

RECURSIVE accessible_folders(_)
accessible_folders(rows) ==
    IF rows = <<>> THEN <<>>
    ELSE IF Head(rows).folder_name # StudentMovement
         THEN <<Head(rows)>> \o accessible_folders(Tail(rows))
         ELSE accessible_folders(Tail(rows))

\* an on-demand pass that saves every file as a new row
save_entry_ondemand_insert(E, id, date, uploaded_by, tag, content, now) ==
    add_entry(E, id, date, uploaded_by, tag, content, now)

\* sync_drive: the upsert when the file id is present, else a plain insert
save_entry_ondemand(E, id, date, uploaded_by, tag, content, now) ==
    IF content.drive_file_id # ""
    THEN add_or_update_drive_entry(E, id, date, uploaded_by, tag, content, now)
    ELSE add_entry(E, id, date, uploaded_by, tag, content, now)

\* variant: the sweep starts for a requester of any role
sync_drive_ungated(user_id) ==
    /\ main.kind = "none"
    /\ clock < MaxPasses
    /\ clock' = clock + 1
    /\ IF FALSE
       THEN UNCHANGED <<drive_folders, main>>
       ELSE LET discovered == list_folders(GOOGLE_DRIVE_ROOT_FOLDER_ID)
                T1 == IF drive_folders = {}
                      THEN discover_folders(drive_folders, discovered)
                      ELSE drive_folders
            IN  /\ drive_folders' = T1
                /\ IF T1 = {}
                   THEN UNCHANGED main
                   ELSE main' = [Idle EXCEPT !.kind = "ondemand", !.pc = "folder",
                                             !.user = user_id,
                                             !.todo = accessible_folders(get_all_folders(T1)),
                                             !.day = today]
    /\ UNCHANGED <<today, folder_role_access, daily_entries, entry_seq, drive_sync_log,
                   drive_webhooks, shortcut_targets, feed, threads, query, probe, faults,
                   hour, renewal, response, walk>>

\* /sync from user_id: the role check, the one-time discovery, the folder list
\* (a refused request takes its time as well: the clock ticks)
sync_drive(user_id) ==
    /\ main.kind = "none"
    /\ clock < MaxPasses
    /\ clock' = clock + 1
    /\ IF Users[user_id] \notin SyncRoles
       THEN UNCHANGED <<drive_folders, main>>
       ELSE LET discovered == list_folders(GOOGLE_DRIVE_ROOT_FOLDER_ID)
                T1 == IF drive_folders = {}
                      THEN discover_folders(drive_folders, discovered)
                      ELSE drive_folders
            IN  /\ drive_folders' = T1
                /\ IF T1 = {}
                   THEN UNCHANGED main
                   ELSE main' = [Idle EXCEPT !.kind = "ondemand", !.pc = "folder",
                                             !.user = user_id,
                                             !.todo = accessible_folders(get_all_folders(T1)),
                                             !.day = today]
    /\ UNCHANGED <<today, folder_role_access, daily_entries, entry_seq, drive_sync_log,
                   drive_webhooks, shortcut_targets, feed, threads, query, probe, faults,
                   hour, renewal, response, walk>>

\* the next folder of the sweep: its files are listed and, for Today's Event,
\* date-filtered; a folder without files is skipped
sync_drive_folder ==
    /\ main.kind = "ondemand"
    /\ main.pc = "folder"
    /\ main.todo # <<>>
    /\ LET folder == Head(main.todo)
           listed == list_files_in_folder(folder.drive_folder_id)
           files  == IF folder.folder_name = TodaysEvent /\ listed # <<>>
                     THEN TodaysEventFiles(listed, DateOf(today))
                     ELSE listed
       IN  IF files = <<>>
           THEN main' = [main EXCEPT !.todo = Tail(@)]
           ELSE main' = [main EXCEPT !.pc = "files", !.folder = folder,
                                     !.files = PlainFiles(files), !.i = 1,
                                     !.processed = 0, !.outcomes = <<>>, !.wrote = {},
                                     !.day = today]
    /\ UNCHANGED <<today, clock, drive_folders, folder_role_access, daily_entries,
                   entry_seq, drive_sync_log, drive_webhooks, shortcut_targets, feed,
                   threads, query, probe, faults,
                   hour, renewal, response, walk>>

\* one iteration of the loop over the folder's files
sync_drive_file ==
    /\ main.kind = "ondemand"
    /\ main.pc = "files"
    /\ main.i <= Len(main.files)
    /\ LET file == main.files[main.i]
           tag  == detect_file_category(DriveMeta[file.id].name, main.folder.folder_name)
           content == ContentData("google_drive", <<main.folder.folder_name>>,
                                  main.folder.drive_folder_id, file.id)
           E2(outcome) == save_entry_ondemand(daily_entries, entry_seq, today, main.user,
                                              tag, Analysed(content, outcome), clock)
       IN  \E outcome \in Outcomes(file.id) :
              /\ Injected(outcome, file.id)
              /\ IF outcome \in SavedOutcomes
                 THEN /\ daily_entries' = E2(outcome)
                      /\ entry_seq' = NextSeq(daily_entries, E2(outcome), entry_seq)
                      /\ main' = file_saved(main)
                 ELSE /\ main' = file_failed(main, file.id, outcome)
                      /\ UNCHANGED <<daily_entries, entry_seq>>
    /\ UNCHANGED <<today, clock, drive_folders, folder_role_access, drive_sync_log,
                   drive_webhooks, shortcut_targets, feed, threads, query, probe,
                   hour, renewal, response, walk>>

\* after a folder's files: its sync time and its sync log row
sync_drive_folder_finish ==
    /\ main.kind = "ondemand"
    /\ main.pc = "files"
    /\ main.i > Len(main.files)
    /\ drive_folders' = update_folder_sync_time(drive_folders, main.folder.id, clock)
    /\ drive_sync_log' = log_sync(drive_sync_log, today, main.folder.id, Len(main.files),
                                  main.processed, Last10(main.errors), main.user, clock)
    /\ main' = [main EXCEPT !.pc = "folder", !.todo = Tail(@)]
    /\ UNCHANGED <<today, clock, folder_role_access, daily_entries, entry_seq,
                   drive_webhooks, shortcut_targets, feed, threads, query, probe, faults,
                   hour, renewal, response, walk>>

\* the stages of a folder's pass at which a call outside the per-file handler
\* raises: the listing of the folder (list_files_in_folder catches HttpError
\* only, so an unreachable store raises through it), update_folder_sync_time,
\* log_sync
AbortStages == {"listing", "sync_time", "log"}

\* variant: the exception leaves the loop over the folders and the sweep ends
sync_drive_folder_abort_stops(stage) ==
    /\ main.kind = "ondemand"
    /\ main.todo # <<>>
    /\ IF stage = "listing" THEN main.pc = "folder"
       ELSE main.pc = "files" /\ main.i > Len(main.files)
    /\ faults < MaxFaults
    /\ faults' = faults + 1
    /\ drive_folders' = IF stage = "log"
                        THEN update_folder_sync_time(drive_folders, main.folder.id, clock)
                        ELSE drive_folders
    /\ main' = [main EXCEPT
                   !.pc = "folder", !.todo = <<>>,
                   !.errors = Append(@, [file |-> Head(main.todo).drive_folder_id,
                                         why |-> "folder_exception"])]
    /\ UNCHANGED <<today, clock, folder_role_access, daily_entries, entry_seq,
                   drive_sync_log, drive_webhooks, shortcut_targets, feed, threads,
                   query, probe, hour, renewal, response, walk>>

\* "except Exception as e" of the loop over the folders: the folder's pass is
\* over at the stage that raised, "Folder <name>: <e>" joins the errors of the
\* sweep and the loop goes on with the next folder
sync_drive_folder_abort(stage) ==
    /\ main.kind = "ondemand"
    /\ main.todo # <<>>
    /\ IF stage = "listing" THEN main.pc = "folder"
       ELSE main.pc = "files" /\ main.i > Len(main.files)
    /\ faults < MaxFaults
    /\ faults' = faults + 1
    /\ drive_folders' = IF stage = "log"
                        THEN update_folder_sync_time(drive_folders, main.folder.id, clock)
                        ELSE drive_folders
    /\ main' = [main EXCEPT
                   !.pc = "folder", !.todo = Tail(@),
                   !.errors = Append(@, [file |-> Head(main.todo).drive_folder_id,
                                         why |-> "folder_exception"])]
    /\ UNCHANGED <<today, clock, folder_role_access, daily_entries, entry_seq,
                   drive_sync_log, drive_webhooks, shortcut_targets, feed, threads,
                   query, probe, hour, renewal, response, walk>>

\* after the last folder: the summary is sent
sync_drive_report ==
    /\ main.kind = "ondemand"
    /\ main.pc = "folder"
    /\ main.todo = <<>>
    /\ main' = Idle
    /\ UNCHANGED <<today, clock, drive_folders, folder_role_access, daily_entries,
                   entry_seq, drive_sync_log, drive_webhooks, shortcut_targets, feed,
                   threads, query, probe, faults,
                   hour, renewal, response, walk>>

-----------------------------------------------------------------------------
(* The change feed and the push-notification channels *)

\* the files whose changes the feed reports in the model
FeedFiles == {"e2", "r1", "s1", "x1"}

\* the external store reports a change of file_id; only a registered channel's
\* cursor ever reads the feed
DriveChange(file_id) ==
    /\ main.kind = "none"
    /\ drive_webhooks # {}
    /\ Len(feed) < MaxFeed
    /\ feed' = Append(feed, file_id)
    /\ UNCHANGED <<today, clock, drive_folders, folder_role_access, daily_entries,
                   entry_seq, drive_sync_log, drive_webhooks, shortcut_targets, main,
                   threads, query, probe, faults,
                   hour, renewal, response, walk>>

\* changes().getStartPageToken(): the position after the last change
start_page_token(changes) == Len(changes) + 1

\* DriveSync.get_changes(page_token): the changes from the cursor on, and the
\* cursor after them
get_changes(changes, page_token) ==
    [changes |-> SubSeq(changes, page_token, Len(changes)),
     newStartPageToken |-> start_page_token(changes)]

\* Database.save_webhook: INSERT ... ON CONFLICT (channel_id) DO UPDATE SET
\* resource_id, page_token, expires_at, active = TRUE (folder_id is kept)
save_webhook(W, folder_id, channel_id, page_token, expires_at) ==
    IF \E w \in W : w.channel_id = channel_id
    THEN {IF w.channel_id = channel_id
          THEN [w EXCEPT !.page_token = page_token, !.expires_at = expires_at,
                         !.active = TRUE]
          ELSE w : w \in W}
    ELSE W \cup {[folder_id |-> folder_id, channel_id |-> channel_id,
                  page_token |-> page_token, expires_at |-> expires_at,
                  active |-> TRUE]}

\* variant: every row of the table is deactivated
deactivate_webhook_all(W, channel_id) == {[w EXCEPT !.active = FALSE] : w \in W}

\* variant: the rows of the channel's folder are all marked inactive
deactivate_webhook_folder(W, channel_id) ==
    {IF \E v \in W : v.channel_id = channel_id /\ v.folder_id = w.folder_id
     THEN [w EXCEPT !.active = FALSE] ELSE w : w \in W}

\* Database.deactivate_webhook: UPDATE ... SET active = FALSE WHERE channel_id
deactivate_webhook(W, channel_id) ==
    {IF w.channel_id = channel_id THEN [w EXCEPT !.active = FALSE] ELSE w : w \in W}

NoWebhook == [folder_id |-> "none", channel_id |-> 0, page_token |-> 0,
              expires_at |-> 0, active |-> FALSE]

\* Database.get_webhook_by_folder: the newest active row of the folder
\* (channel ids are handed out in the order of creation)
get_webhook_by_folder(W, folder_id) ==
    LET rows == {w \in W : w.folder_id = folder_id /\ w.active}
    IN  IF rows = {} THEN NoWebhook
        ELSE CHOOSE w \in rows : \A v \in rows : v.channel_id <= w.channel_id

\* the channels the external store hands out live this long, in hours
ChannelLifetime == 36

\* the id of the next channel the external store hands out
new_channel_id(W) == Cardinality(W) + 1

\* SubscriptionManager.register: a channel is requested for a registered folder
\* and stored with its expiry and a fresh cursor
register_webhook(folder) ==
    /\ Setup
    /\ renewal = NoRenewal
    /\ Cardinality(drive_webhooks) < MaxChannels
    /\ drive_webhooks' = save_webhook(drive_webhooks, folder.drive_folder_id,
                                      new_channel_id(drive_webhooks),
                                      start_page_token(feed), hour + ChannelLifetime)
    /\ UNCHANGED <<today, clock, drive_folders, folder_role_access, daily_entries,
                   entry_seq, drive_sync_log, shortcut_targets, feed, main, threads,
                   query, probe, faults,
                   hour, renewal, response, walk>>

\* a shortcut of a registered folder and its target are recorded through
\* Database.save_shortcut_target
track_shortcut(shortcut_id, folder) ==
    /\ Setup
    /\ DriveMeta[shortcut_id].mimeType = SHORTCUT_MIME
    /\ InSeq(folder.drive_folder_id, DriveMeta[shortcut_id].parents)
    /\ resolve_shortcut(shortcut_id) # "none"
    /\ shortcut_targets' = save_shortcut_target(shortcut_targets, shortcut_id,
                                                resolve_shortcut(shortcut_id),
                                                folder.drive_folder_id)
    /\ shortcut_targets' # shortcut_targets
    /\ UNCHANGED <<today, clock, drive_folders, folder_role_access, daily_entries,
                   entry_seq, drive_sync_log, drive_webhooks, feed, main, threads,
                   query, probe, faults,
                   hour, renewal, response, walk>>

-----------------------------------------------------------------------------
(* The notification endpoint: webhook_handler.handle_drive_webhook (POST) *)

ResourceStates == {"sync", "update", "change", "trash"}

\* request.get_json() on the request's body: it returns for "parsed" and raises
\* (werkzeug's BadRequest) for "malformed", a body announced as JSON that is not
Bodies == {"parsed", "malformed"}

\* variant: the handler runs the pass itself and answers when it is over, so
\* no pass is left running when the answer is given
spawn_pass_joined(T, t, channel_id, day) == T

\* threading.Thread(target=process_drive_changes_with_notification,
\*                  args=(channel_id,)).start()
spawn_pass(T, t, channel_id, day) ==
    [T EXCEPT ![t] = [Idle EXCEPT !.kind = "webhook", !.pc = "lookup",
                                  !.user = SyncUser, !.channel_id = channel_id,
                                  !.day = day]]

\* the status of the POST branch: ("OK", 200) from each resource state,
\* ("Error", 500) from the except clause
post_status(body) == IF body = "malformed" THEN 500 ELSE 200

\* POST /webhook/drive (set_bot_instance has been called: the bot is running).
\* Every request takes its time: the clock ticks, passes and requests share
\* the budget MaxPasses.
handle_drive_webhook(channel_id, resource_state, body) ==
    /\ clock < MaxPasses
    /\ clock' = clock + 1
    /\ response' = post_status(body)
    /\ IF body # "malformed" /\ resource_state \in {"update", "change"}
       THEN \E t \in DOMAIN threads :
               /\ threads[t].kind = "none"
               /\ \A u \in 1..(t - 1) : threads[u].kind # "none"
               /\ threads' = spawn_pass(threads, t, channel_id, today)
       ELSE UNCHANGED threads
    /\ UNCHANGED <<today, drive_folders, folder_role_access, daily_entries,
                   entry_seq, drive_sync_log, drive_webhooks, shortcut_targets,
                   feed, main, query, probe, faults, hour, renewal, walk>>

-----------------------------------------------------------------------------
(* The notification pass: webhook_handler.process_drive_changes *)

\* the bound of the walk up the parent chain
max_depth == 10

AUTO_SYNC_MIME_TYPES == {DOC_MIME, SHEET_MIME, SLIDES_MIME, PDF_MIME, SHORTCUT_MIME}

\* the while loop over current_parent: TRUE when the watched folder is among
\* the parents of a folder on the chain
RECURSIVE in_watched_tree(_, _, _)
in_watched_tree(current_parent, depth, folder_id) ==
    IF ~(depth < max_depth) THEN FALSE
    ELSE LET parent_parents == DriveMeta[current_parent].parents
         IN  IF InSeq(folder_id, parent_parents) THEN TRUE
             ELSE IF parent_parents = <<>> THEN FALSE
             ELSE in_watched_tree(parent_parents[1], depth + 1, folder_id)

\* variant: a changed file of a supported kind is taken wherever it lies
files_to_sync_of_anywhere(file_id, folder_id, S) ==
    LET file_name == DriveMeta[file_id].name
        mime_type == DriveMeta[file_id].mimeType
        is_doc_or_sheet == mime_type \in AUTO_SYNC_MIME_TYPES
        is_pdf    == mime_type = PDF_MIME \/ EndsWith(Lower(file_name), DotPdf)
        is_image  == IsImageMime(mime_type)
    IN  IF mime_type = FOLDER_MIME THEN <<>>
        ELSE IF ~(is_doc_or_sheet \/ is_pdf \/ is_image) THEN <<>>
        ELSE <<FileDict(file_id, FALSE, FALSE)>>

\* the candidate a change yields for the watched folder: <<file>> or <<>>
files_to_sync_of(file_id, folder_id, S) ==
    LET file_name == DriveMeta[file_id].name
        mime_type == DriveMeta[file_id].mimeType
        parents   == DriveMeta[file_id].parents
        is_doc_or_sheet == mime_type \in AUTO_SYNC_MIME_TYPES
        is_pdf    == mime_type = PDF_MIME \/ EndsWith(Lower(file_name), DotPdf)
        is_image  == IsImageMime(mime_type)
        tracked   == get_shortcut_by_target(S, file_id)
    IN  IF mime_type = FOLDER_MIME THEN <<>>
        ELSE IF ~(is_doc_or_sheet \/ is_pdf \/ is_image) THEN <<>>
        ELSE IF InSeq(folder_id, parents) \/ file_id = folder_id
             THEN <<FileDict(file_id, FALSE, FALSE)>>
        ELSE IF parents # <<>>
             THEN IF in_watched_tree(parents[1], 0, folder_id)
                  THEN <<FileDict(file_id, TRUE, FALSE)>>
                  ELSE <<>>
        ELSE IF tracked # {}
                /\ (CHOOSE r \in tracked : TRUE).watched_folder_id = folder_id
             THEN <<FileDict(file_id, FALSE, TRUE)>>
             ELSE <<>>

RECURSIVE files_to_sync(_, _, _)
files_to_sync(changes, folder_id, S) ==
    IF changes = <<>> THEN <<>>
    ELSE files_to_sync_of(Head(changes), folder_id, S)
            \o files_to_sync(Tail(changes), folder_id, S)

SetThread(t, p) == threads' = [threads EXCEPT ![t] = p]

\* the thread starts: the channel's row and its page token are read
process_drive_changes(t) ==
    /\ threads[t].kind = "webhook"
    /\ threads[t].pc = "lookup"
    /\ LET found == {w \in get_all_active_webhooks(drive_webhooks) :
                        w.channel_id = threads[t].channel_id}
       IN  IF found = {}
           THEN SetThread(t, Idle)
           ELSE LET webhook == CHOOSE w \in found : TRUE
                IN  SetThread(t, [threads[t] EXCEPT
                                     !.pc = "fetch",
                                     !.page_token = webhook.page_token,
                                     !.folder = [NoFolder EXCEPT
                                         !.drive_folder_id = webhook.folder_id]])
    /\ UNCHANGED <<today, clock, drive_folders, folder_role_access, daily_entries,
                   entry_seq, drive_sync_log, drive_webhooks, shortcut_targets, feed,
                   main, query, probe, faults,
                   hour, renewal, response, walk>>

\* the changes since the page token are fetched, the folder is looked up and
\* the candidate files are collected
process_drive_changes_fetch(t) ==
    /\ threads[t].kind = "webhook"
    /\ threads[t].pc = "fetch"
    /\ LET p == threads[t]
           changes_result == get_changes(feed, p.page_token)
           folder_id == p.folder.drive_folder_id
           folder == get_folder_by_drive_id(drive_folders, folder_id)
           files == files_to_sync(changes_result.changes, folder_id, shortcut_targets)
       IN  IF changes_result.changes = <<>> \/ folder = NoFolder
           THEN SetThread(t, Idle)
           ELSE SetThread(t, [p EXCEPT
                                 !.pc = IF files # <<>> THEN "files" ELSE "token",
                                 !.changes = changes_result.changes,
                                 !.new_page_token = changes_result.newStartPageToken,
                                 !.folder = folder, !.files = files, !.i = 1])
    /\ UNCHANGED <<today, clock, drive_folders, folder_role_access, daily_entries,
                   entry_seq, drive_sync_log, drive_webhooks, shortcut_targets, feed,
                   main, query, probe, faults,
                   hour, renewal, response, walk>>

\* a notification pass that saves every file as a new row
save_entry_webhook_insert(E, id, date, uploaded_by, tag, content, now) ==
    add_entry(E, id, date, uploaded_by, tag, content, now)

\* sync_changed_files: always the upsert
save_entry_webhook(E, id, date, uploaded_by, tag, content, now) ==
    add_or_update_drive_entry(E, id, date, uploaded_by, tag, content, now)

\* sync_changed_files: one iteration of the loop over the changed files
sync_changed_files_file(t) ==
    /\ threads[t].kind = "webhook"
    /\ threads[t].pc = "files"
    /\ threads[t].i <= Len(threads[t].files)
    /\ LET p == threads[t]
           file == p.files[p.i]
           meta == DriveMeta[file.id]
           S2 == IF meta.mimeType = SHORTCUT_MIME /\ file.shortcut_info # "none"
                 THEN save_shortcut_target(shortcut_targets, file.id, file.shortcut_info,
                                           p.folder.drive_folder_id)
                 ELSE shortcut_targets
           tag == detect_file_category(meta.name, p.folder.folder_name)
           in_sub == file.in_subfolder /\ meta.parents # <<>>
           subfolder_db == IF in_sub
                           THEN get_folder_by_drive_id(drive_folders, meta.parents[1])
                           ELSE NoFolder
           effective_folder == IF subfolder_db # NoFolder THEN subfolder_db ELSE p.folder
           file_folder_name == IF in_sub
                               THEN <<p.folder.folder_name, DriveMeta[meta.parents[1]].name>>
                               ELSE <<p.folder.folder_name>>
           content == ContentData("google_drive_webhook", file_folder_name,
                                  effective_folder.drive_folder_id, file.id)
           E2(outcome) == save_entry_webhook(daily_entries, entry_seq, today, p.user, tag,
                                             Analysed(content, outcome), clock)
       IN  /\ shortcut_targets' = S2
           /\ \E outcome \in Outcomes(file.id) :
                 /\ Injected(outcome, file.id)
                 /\ IF outcome \in SavedOutcomes
                    THEN /\ daily_entries' = E2(outcome)
                         /\ entry_seq' = NextSeq(daily_entries, E2(outcome), entry_seq)
                         /\ SetThread(t, file_saved(p))
                    ELSE /\ SetThread(t, file_failed(p, file.id, outcome))
                         /\ UNCHANGED <<daily_entries, entry_seq>>
    /\ UNCHANGED <<today, clock, drive_folders, folder_role_access, drive_sync_log,
                   drive_webhooks, feed, main, query, probe,
                   hour, renewal, response, walk>>

\* sync_changed_files, after the loop: the folder's sync time and the log row
sync_changed_files_finish(t) ==
    /\ threads[t].kind = "webhook"
    /\ threads[t].pc = "files"
    /\ threads[t].i > Len(threads[t].files)
    /\ LET p == threads[t]
       IN  /\ drive_folders' = update_folder_sync_time(drive_folders, p.folder.id, clock)
           /\ drive_sync_log' = log_sync(drive_sync_log, today, p.folder.id, Len(p.files),
                                         p.processed, Last10(p.errors), p.user, clock)
           /\ SetThread(t, [p EXCEPT !.pc = "token"])
    /\ UNCHANGED <<today, clock, folder_role_access, daily_entries, entry_seq,
                   drive_webhooks, shortcut_targets, feed, main, query, probe, faults,
                   hour, renewal, response, walk>>

\* variant: the new page token is stored as soon as the changes are fetched,
\* while the files of the window are still to be processed
process_drive_changes_token_early(t) ==
    /\ threads[t].kind = "webhook"
    /\ threads[t].pc \in {"files", "token"}
    /\ drive_webhooks' = update_webhook_page_token(drive_webhooks, threads[t].channel_id,
                                                   threads[t].new_page_token)
    /\ SetThread(t, IF threads[t].pc = "token" THEN Idle ELSE threads[t])
    /\ UNCHANGED <<today, clock, drive_folders, folder_role_access, daily_entries,
                   entry_seq, drive_sync_log, shortcut_targets, feed, main, query, probe, faults,
                   hour, renewal, response, walk>>

\* process_drive_changes, last step: the new page token is stored
process_drive_changes_token(t) ==
    /\ threads[t].kind = "webhook"
    /\ threads[t].pc = "token"
    /\ drive_webhooks' = update_webhook_page_token(drive_webhooks, threads[t].channel_id,
                                                   threads[t].new_page_token)
    /\ SetThread(t, Idle)
    /\ UNCHANGED <<today, clock, drive_folders, folder_role_access, daily_entries,
                   entry_seq, drive_sync_log, shortcut_targets, feed, main, query, probe, faults,
                   hour, renewal, response, walk>>

\* what is left of a pass that ended in an exception: its channel and the
\* window it had fetched; the thread is over and its slot is free
Crashed(p) == [Idle EXCEPT !.pc = "crashed", !.channel_id = p.channel_id,
                           !.page_token = p.page_token, !.changes = p.changes]

\* variant: the page token is stored on the way out of a failed pass as well
process_drive_changes_crash_saves_token(t) ==
    /\ threads[t].kind = "webhook"
    /\ threads[t].pc \in {"fetch", "files", "token"}
    /\ faults < MaxFaults
    /\ faults' = faults + 1
    /\ drive_webhooks' = update_webhook_page_token(drive_webhooks, threads[t].channel_id,
                                                   start_page_token(feed))
    /\ SetThread(t, Crashed(threads[t]))
    /\ UNCHANGED <<today, clock, drive_folders, folder_role_access, daily_entries,
                   entry_seq, drive_sync_log, shortcut_targets, feed, main, query,
                   probe, hour, renewal, response, walk>>

\* an exception leaves process_drive_changes (a call of the external store or
\* of the database raises outside the per-file handler, or the process dies):
\* "except Exception as e: logger.error(...)" and the thread is over
process_drive_changes_crash(t) ==
    /\ threads[t].kind = "webhook"
    /\ threads[t].pc \in {"fetch", "files", "token"}
    /\ faults < MaxFaults
    /\ faults' = faults + 1
    /\ SetThread(t, Crashed(threads[t]))
    /\ UNCHANGED <<today, clock, drive_folders, folder_role_access, daily_entries,
                   entry_seq, drive_sync_log, drive_webhooks, shortcut_targets, feed,
                   main, query, probe, hour, renewal, response, walk>>

-----------------------------------------------------------------------------
(* The day: midnight, taken while no pass is running *)

NextDay ==
    /\ main.kind = "none"
    /\ \A t \in 1..MaxThreads : threads[t].kind = "none"
    /\ today < MaxDay
    /\ today' = today + 1
    /\ UNCHANGED <<clock, drive_folders, folder_role_access, daily_entries, entry_seq,
                   drive_sync_log, drive_webhooks, shortcut_targets, feed, main, threads,
                   query, probe, faults,
                   hour, renewal, response, walk>>

-----------------------------------------------------------------------------
(* Manual uploads: SchoolAdminBot.upload_start, tag_selected, content_received *)

TAGS == {"STUDENT_MOVEMENT", "GENERAL"}

UploadRoles == {"admin", "superadmin", "student_admin"}

\* the rows written by content_received
ManualEntries(E) == {e \in E : e.content.drive_file_id = ""}

\* a text message is saved under the selected tag; a student_admin is offered
\* the tag STUDENT_MOVEMENT only, and the upload is then marked with the folder
content_received(user_id, selected_tag) ==
    /\ Users[user_id] \in UploadRoles
    /\ selected_tag \in (IF Users[user_id] = "student_admin"
                         THEN {"STUDENT_MOVEMENT"} ELSE TAGS)
    /\ Cardinality(ManualEntries(daily_entries)) < MaxUploads
    /\ LET content_data ==
               [type |-> "text", source |-> "",
                folder |-> IF selected_tag = "STUDENT_MOVEMENT"
                              /\ Users[user_id] = "student_admin"
                           THEN <<StudentMovement>> ELSE <<>>,
                drive_folder_id |-> "", drive_file_id |-> ""]
       IN  daily_entries' = add_entry(daily_entries, entry_seq, today, user_id,
                                      selected_tag, content_data, clock)
    /\ entry_seq' = entry_seq + 1
    /\ UNCHANGED <<today, clock, drive_folders, folder_role_access, drive_sync_log,
                   drive_webhooks, shortcut_targets, feed, main, threads, query, probe,
                   faults,
                   hour, renewal, response, walk>>

-----------------------------------------------------------------------------
(* The access filter: SchoolAdminBot._filter_entries_by_folder_access *)

\* Database.get_today_entries
get_today_entries(E, date) == {e \in E : e.date = date}

\* tag STUDENT_MOVEMENT, or a folder path naming 'Student Movement'
_is_student_movement_entry(entry) ==
    \/ entry.tag = "STUDENT_MOVEMENT"
    \/ InSeq(StudentMovement, entry.content.folder)

\* variant of the loop body: every entry is kept
filtered_entry_all(entry, user_role, T, A) == TRUE

\* variant of the loop body: Today's Event is filtered like any other folder
filtered_entry_no_public(entry, user_role, T, A) ==
    LET drive_folder_id == entry.content.drive_folder_id
        folder == get_folder_by_drive_id(T, drive_folder_id)
        roles  == get_folder_with_roles(A, folder.id)
    IN  IF drive_folder_id = "" \/ folder = NoFolder \/ roles = {}
        THEN user_role \in {"relief_member", "admin"}
        ELSE user_role \in roles

\* variant of the loop body: the default-allow set holds the viewer as well
filtered_entry_default_viewer(entry, user_role, T, A) ==
    LET drive_folder_id == entry.content.drive_folder_id
        folder == get_folder_by_drive_id(T, drive_folder_id)
        roles  == get_folder_with_roles(A, folder.id)
    IN  IF drive_folder_id = "" \/ folder = NoFolder
        THEN user_role \in {"relief_member", "admin", "viewer"}
        ELSE IF folder.folder_name = TodaysEvent THEN TRUE
        ELSE IF roles = {} THEN user_role \in {"relief_member", "admin", "viewer"}
        ELSE user_role \in roles

\* the body of the loop over the entries: TRUE when the entry is appended
filtered_entry(entry, user_role, T, A) ==
    LET drive_folder_id == entry.content.drive_folder_id
        folder == get_folder_by_drive_id(T, drive_folder_id)
        roles  == get_folder_with_roles(A, folder.id)
    IN  IF drive_folder_id = "" THEN user_role \in {"relief_member", "admin"}
        ELSE IF folder = NoFolder THEN user_role \in {"relief_member", "admin"}
        ELSE IF folder.folder_name = TodaysEvent THEN TRUE
        ELSE IF roles = {} THEN user_role \in {"relief_member", "admin"}
        ELSE user_role \in roles

_filter_entries_by_folder_access(entries, user_role, T, A) ==
    IF entries = {} THEN entries
    ELSE IF user_role = "superadmin" THEN entries
    ELSE IF user_role = "student_admin"
         THEN {e \in entries : _is_student_movement_entry(e)}
    ELSE {e \in entries : filtered_entry(e, user_role, T, A)}

\* /ask: today's entries, filtered for the caller's role
ask_query(user_id) ==
    /\ LET all_entries == get_today_entries(daily_entries, today)
           user_role == Users[user_id]
       IN  query' = [role |-> user_role, entries |-> all_entries,
                     result |-> _filter_entries_by_folder_access(
                                    all_entries, user_role, drive_folders,
                                    folder_role_access)]
    /\ UNCHANGED <<today, clock, drive_folders, folder_role_access, daily_entries,
                   entry_seq, drive_sync_log, drive_webhooks, shortcut_targets, feed,
                   main, threads, probe, faults,
                   hour, renewal, response, walk>>

-----------------------------------------------------------------------------
(* The date filter put to a file name *)

\* file names built from a day, a month, a year, a title and an extension
EventNames ==
    {dd \o <<"_">> \o <<"0", "3">> \o <<"_">> \o yy \o <<"_">> \o title \o ext :
        dd \in {<<"0", "5">>, <<"0", "6">>, <<"5">>},
        yy \in {<<"2", "5">>, <<"2", "0", "2", "5">>, <<"2", "4">>, <<"0", "2", "5">>},
        title \in {<<"a">>, <<"_", "a", "_", "b">>, <<>>},
        ext \in {<<".", "p", "d", "f">>, <<".", "P", "D", "F">>,
                 <<".", "d", "o", "c">>, <<>>}}

\* the filter applied to one listed name
todays_event_files(filename) ==
    /\ probe' = [filename |-> filename,
                 result |-> _is_todays_event_pdf(filename, DateOf(today))]
    /\ UNCHANGED <<today, clock, drive_folders, folder_role_access, daily_entries,
                   entry_seq, drive_sync_log, drive_webhooks, shortcut_targets, feed,
                   main, threads, query, faults,
                   hour, renewal, response, walk>>

-----------------------------------------------------------------------------
NoQuery == [role |-> "", entries |-> {}, result |-> {}]

NoWalk == [pc |-> "none"]

NoProbe == [filename |-> <<>>, result |-> NoMatch]

Init ==
    /\ today = 1
    /\ clock = 0
    /\ drive_folders = {}
    /\ folder_role_access = {}
    /\ daily_entries = {}
    /\ entry_seq = 1
    /\ drive_sync_log = <<>>
    /\ drive_webhooks = {}
    /\ shortcut_targets = {}
    /\ feed = <<>>
    /\ main = Idle
    /\ threads = [t \in 1..MaxThreads |-> Idle]
    /\ query = NoQuery
    /\ probe = NoProbe
    /\ faults = 0
    /\ hour = 0
    /\ renewal = NoRenewal
    /\ response = 0
    /\ walk = NoWalk

\* the registered folders without a channel: in Spec a folder is given its
\* channel once (SpecRenew registers and renews a folder's channel repeatedly)
Unwatched ==
    {f \in drive_folders :
        get_webhook_by_folder(drive_webhooks, f.drive_folder_id) = NoWebhook}

\* the role sets /setfolder is given in the engine's specification
SpecRoleSets == {{"admin"}}

Next ==
    \/ \E folder_name \in EngineFolders, roles \in SpecRoleSets :
            set_folder(SyncUser, folder_name, roles)
    \/ \E folder_name \in EngineFolders : sync_folder_job(folder_name)
    \/ sync_folder_job_file
    \/ sync_folder_job_finish
    \/ \E user_id \in SyncCallers : sync_drive(user_id)
    \/ sync_drive_folder
    \/ sync_drive_file
    \/ sync_drive_folder_finish
    \/ sync_drive_report
    \/ \E file_id \in FeedFiles : DriveChange(file_id)
    \/ \E folder \in Unwatched : register_webhook(folder)
    \/ \E shortcut_id \in DriveIds, folder \in drive_folders :
            track_shortcut(shortcut_id, folder)
    \/ \E w \in drive_webhooks, resource_state \in ResourceStates :
            \E body \in Bodies : handle_drive_webhook(w.channel_id, resource_state, body)
    \/ \E t \in 1..MaxThreads :
            \/ process_drive_changes(t)
            \/ process_drive_changes_fetch(t)
            \/ sync_changed_files_file(t)
            \/ sync_changed_files_finish(t)
            \/ process_drive_changes_token(t)
            \/ process_drive_changes_crash(t)
    \/ NextDay

Spec == Init /\ [][Next]_vars

-----------------------------------------------------------------------------
(* Properties of the sync passes *)

\* the rows of a day that carry a file id
RowOf(E, date, file_id) ==
    {e \in E : e.date = date /\ e.content.drive_file_id = file_id}

OneRowPerFile(E) ==
    \A a, b \in E :
        (a.content.drive_file_id # "" /\ a.date = b.date
            /\ a.content.drive_file_id = b.content.drive_file_id) => a = b

\* the step in which pass p, becoming q, saves the file at p.i
Saves(p, q) == p.kind # "none" /\ q.kind = p.kind /\ p.pc = "files"
               /\ q.processed = p.processed + 1

InPlace(p, q) ==
    Saves(p, q) =>
        LET f   == p.files[p.i].id
            old == RowOf(daily_entries, today, f)
            new == RowOf(daily_entries', today, f)
        IN  /\ Cardinality(new) = 1
            /\ \A e \in new : e.timestamp = clock
            /\ old # {} => /\ {e.id : e \in new} = {e.id : e \in old}
                           /\ Cardinality(daily_entries') = Cardinality(daily_entries)

\* C1: the store never holds two DailyEntry rows for one (day, file id); a pass
\* that saves a file already saved that day leaves the row count as it was and
\* rewrites the existing row (same id) with the new content and timestamp
C1_Upsert ==
    [][/\ OneRowPerFile(daily_entries')
       /\ InPlace(main, main')
       /\ \A t \in 1..MaxThreads : InPlace(threads[t], threads'[t])]_vars

\* C1 witness: a second scheduled pass of the day has rewritten row 1, which the
\* first pass inserted, and no row was added
C1_Witness ==
    /\ main.kind = "scheduled" /\ main.wrote # {}
    /\ \A t \in 1..MaxThreads : threads[t].kind = "none"
    /\ Len(drive_sync_log) = 1
    /\ drive_sync_log[1].date = today /\ drive_sync_log[1].synced_at = 1
    /\ drive_sync_log[1].files_processed >= 1
    /\ drive_sync_log[1].folder_id = main.folder.id
    /\ \E e \in daily_entries : e.id = 1 /\ e.timestamp = 2 /\ e.date = today
    /\ Cardinality(daily_entries) = drive_sync_log[1].files_processed

SourceOf(kind) ==
    CASE kind = "scheduled" -> "google_drive_scheduled"
      [] kind = "ondemand" -> "google_drive"
      [] kind = "webhook" -> "google_drive_webhook"

LastWriter(p, q) ==
    Saves(p, q) =>
        LET new == RowOf(daily_entries', today, p.files[p.i].id)
        IN  /\ Cardinality(new) = 1
            /\ \A e \in new : e.content.source = SourceOf(p.kind)

Isolation(p, q) ==
    (p.kind # "none" /\ p.pc = "files" /\ q # p /\ p.i <= Len(p.files)
        /\ q.pc # "crashed") =>
        LET f == p.files[p.i].id
            outcome == q.outcomes[Len(q.outcomes)]
        IN  /\ q.kind = p.kind /\ q.pc = "files" /\ q.files = p.files
            /\ q.i = p.i + 1
            /\ Len(q.outcomes) = Len(p.outcomes) + 1
            /\ \A j \in q.wrote : RowOf(daily_entries', today, q.files[j].id) # {}
            /\ IF outcome = "ok"
               THEN /\ p.i \in q.wrote
                    /\ q.errors = p.errors
               ELSE /\ daily_entries' = daily_entries
                    /\ q.wrote = p.wrote
                    /\ q.errors = Append(p.errors, [file |-> f, why |-> outcome])

\* C6: a file that fails to download or raises adds its failure to the pass's
\* error list and writes nothing; the pass goes on to the next file, and the
\* files it saved before and after each have their row
C6_ErrorIsolation ==
    [][/\ Isolation(main, main')
       /\ \A t \in 1..MaxThreads : Isolation(threads[t], threads'[t])]_vars

\* C6 witness: a pass over three files whose second failed: the first and the
\* third have a row, the second has none and is in the error list
C6_Witness ==
    /\ main.kind = "scheduled" /\ Len(main.files) = 3 /\ main.i = 4
    /\ main.outcomes[1] = "ok" /\ main.outcomes[2] # "ok" /\ main.outcomes[3] = "ok"
    /\ RowOf(daily_entries, today, main.files[1].id) # {}
    /\ RowOf(daily_entries, today, main.files[2].id) = {}
    /\ RowOf(daily_entries, today, main.files[3].id) # {}
    /\ \E k \in 1..Len(main.errors) : main.errors[k].file = main.files[2].id

\* the length of the year in a name DD_MM_YY_<title> or DD_MM_YYYY_<title>,
\* 0 when the name has neither form
DatedNameYearLen(name) ==
    LET ok(k) ==
            /\ Len(name) >= 8 + k
            /\ IsDigit(name[1]) /\ IsDigit(name[2]) /\ name[3] = "_"
            /\ IsDigit(name[4]) /\ IsDigit(name[5]) /\ name[6] = "_"
            /\ \A i \in 7..(6 + k) : IsDigit(name[i])
            /\ name[7 + k] = "_"
    IN  IF ok(2) THEN 2 ELSE IF ok(4) THEN 4 ELSE 0

\* the date embedded in a name of that form
EmbeddedDate(name) ==
    LET k == DatedNameYearLen(name)
        y == ParseInt(SubSeq(name, 7, 6 + k))
    IN  [day |-> ParseInt(SubSeq(name, 1, 2)), month |-> ParseInt(SubSeq(name, 4, 5)),
         year |-> IF k = 2 THEN 2000 + y ELSE y]

\* a name DD_MM_YY_<title>.pdf or DD_MM_YYYY_<title>.pdf, the title not empty,
\* the extension in either case
DatedPdfName(name) ==
    /\ DatedNameYearLen(name) # 0
    /\ Len(name) >= 12 + DatedNameYearLen(name)
    /\ EndsWith(Lower(name), DotPdf)

\* C8 as stated: every row of a file of the Today's Event folder was written on
\* the date embedded in the file's name
C8_DateFilterOnEveryEntryPoint ==
    \A e \in daily_entries :
        (e.content.drive_file_id # ""
            /\ InSeq(get_folder_by_name_drive(TodaysEvent),
                     DriveMeta[e.content.drive_file_id].parents))
        => /\ DatedNameYearLen(DriveMeta[e.content.drive_file_id].name) # 0
           /\ EmbeddedDate(DriveMeta[e.content.drive_file_id].name) = DateOf(e.date)

\* C9 as stated: when a notification pass has fetched a change naming the
\* target of a shortcut recorded for the channel's folder, the target is among
\* the pass's candidate files
C9_ShortcutReattribution ==
    \A t \in 1..MaxThreads :
        (threads[t].kind = "webhook" /\ threads[t].pc \in {"files", "token"}) =>
            \A b \in shortcut_targets :
                (b.watched_folder_id = threads[t].folder.drive_folder_id
                    /\ InSeq(b.target_file_id, threads[t].changes))
                => \E j \in 1..Len(threads[t].files) :
                        threads[t].files[j].id = b.target_file_id

\* the step that ends the loop over the files of pass p
Ends(p, q) == p.kind # "none" /\ p.pc = "files" /\ p.i > Len(p.files) /\ q # p

BindingAtEnd(p, q) ==
    Ends(p, q) =>
        \A j \in 1..Len(p.files) :
            DriveMeta[p.files[j].id].mimeType = SHORTCUT_MIME =>
                \E b \in shortcut_targets' :
                    /\ b.shortcut_id = p.files[j].id
                    /\ b.target_file_id = resolve_shortcut(p.files[j].id)
                    /\ b.watched_folder_id = p.folder.drive_folder_id

\* C10 as stated: when a pass over files that include a shortcut ends, the
\* store holds a ShortcutBinding of the shortcut, its target and the folder
C10_BindingByEndOfPass ==
    [][/\ BindingAtEnd(main, main')
       /\ \A t \in 1..MaxThreads : BindingAtEnd(threads[t], threads'[t])]_vars

-----------------------------------------------------------------------------
(* The access filter on the store a day's passes leave behind *)

\* the role sets /setfolder has given a folder (none: the folder was discovered)
FilterRoleSets == {{}, {"admin"}, {"viewer", "relief_member"}}

\* the row a scheduled pass saves for a file of a registered folder
synced_entry(E, T, file_id) ==
    LET folder == get_folder_by_drive_id(T, DriveMeta[file_id].parents[1])
    IN  save_entry_scheduled(
            E, Cardinality(E) + 1, 1, SyncUser,
            detect_file_category(DriveMeta[file_id].name, folder.folder_name),
            ContentData("google_drive_scheduled", <<folder.folder_name>>,
                        folder.drive_folder_id, file_id),
            MaxPasses)

\* both folders are registered, each with the rules /setfolder gave it, and the
\* scheduled passes of day 1 have saved some of e1 and r1
InitFilter ==
    /\ today = 1
    /\ clock = MaxPasses
    /\ drive_folders = discover_folders({}, list_folders(GOOGLE_DRIVE_ROOT_FOLDER_ID))
    /\ \E event_roles \in FilterRoleSets, relief_roles \in FilterRoleSets :
          folder_role_access =
              set_folder_role_access(
                  set_folder_role_access(
                      {}, get_folder_by_name(drive_folders, TodaysEvent).id, event_roles),
                  get_folder_by_name(drive_folders, ReliefCommittee).id, relief_roles)
    /\ daily_entries \in
          {{}, synced_entry({}, drive_folders, "e1"),
           synced_entry({}, drive_folders, "r1"),
           synced_entry(synced_entry({}, drive_folders, "e1"), drive_folders, "r1")}
    /\ entry_seq = Cardinality(daily_entries) + 1
    /\ drive_sync_log = <<>>
    /\ drive_webhooks = {}
    /\ shortcut_targets = {}
    /\ feed = <<>>
    /\ main = Idle
    /\ threads = [t \in 1..MaxThreads |-> Idle]
    /\ query = NoQuery
    /\ probe = NoProbe
    /\ faults = 0
    /\ hour = 0
    /\ renewal = NoRenewal
    /\ response = 0
    /\ walk = NoWalk

NextFilter ==
    \/ \E user_id \in DOMAIN Users, selected_tag \in TAGS :
            content_received(user_id, selected_tag)
    \/ \E user_id \in DOMAIN Users : ask_query(user_id)

SpecFilter == InitFilter /\ [][NextFilter]_vars

-----------------------------------------------------------------------------
(* The date filter on bounded file names *)

InitDate ==
    /\ today \in 1..MaxDay
    /\ clock = 0
    /\ drive_folders = {}
    /\ folder_role_access = {}
    /\ daily_entries = {}
    /\ entry_seq = 1
    /\ drive_sync_log = <<>>
    /\ drive_webhooks = {}
    /\ shortcut_targets = {}
    /\ feed = <<>>
    /\ main = Idle
    /\ threads = [t \in 1..MaxThreads |-> Idle]
    /\ query = NoQuery
    /\ probe = NoProbe
    /\ faults = 0
    /\ hour = 0
    /\ renewal = NoRenewal
    /\ response = 0
    /\ walk = NoWalk

NextDate == \E filename \in EventNames : todays_event_files(filename)

SpecDate == InitDate /\ [][NextDate]_vars

-----------------------------------------------------------------------------
(* Properties of the access filter *)

\* the registered folder an entry is attributed to (NoFolder when it has none)
OwningFolder(e) == get_folder_by_drive_id(drive_folders, e.content.drive_folder_id)

\* the roles configured for the entry's folder
OwningRoles(e) == {a.role : a \in {x \in folder_role_access :
                                      x.folder_id = OwningFolder(e).id}}

InEventCategory(e) == OwningFolder(e).folder_name = TodaysEvent

\* C3 as stated: an entry of a folder configured with {admin} is absent for a
\* viewer and present for an admin; a superadmin is given every entry
C3_Original ==
    /\ \A e \in query.entries :
          OwningRoles(e) = {"admin"} =>
              /\ query.role = "viewer" => e \notin query.result
              /\ query.role = "admin" => e \in query.result
    /\ query.role = "superadmin" => query.result = query.entries

\* C3: an entry of a folder other than Today's Event that is configured with
\* {admin} is absent for a viewer and present for an admin; an entry of any
\* folder configured with {admin} is present for an admin; a superadmin is
\* given every entry whatever the folders' roles
C3_AdminOnlyFolder ==
    /\ \A e \in query.entries :
          OwningRoles(e) = {"admin"} =>
              /\ (query.role = "viewer" /\ ~InEventCategory(e)) => e \notin query.result
              /\ query.role = "admin" => e \in query.result
    /\ query.role = "superadmin" => query.result = query.entries

\* C3 witness: a viewer asked and an entry of the Relief Committee folder,
\* configured with {admin}, was withheld
C3_Witness ==
    /\ query.role = "viewer"
    /\ \E e \in query.entries :
          /\ OwningRoles(e) = {"admin"}
          /\ OwningFolder(e).folder_name = ReliefCommittee
          /\ e \notin query.result

\* C4 as stated: an entry of the Today's Event folder is in the result for
\* every role
C4_Original ==
    \A e \in query.entries : InEventCategory(e) => e \in query.result

\* C4: an entry of the Today's Event folder is in the result for the roles
\* viewer, relief_member, admin and superadmin whatever rules the folder has;
\* for student_admin it is in the result only as a Student Movement entry
C4_EventVisible ==
    \A e \in query.entries :
        InEventCategory(e) =>
            IF query.role = "student_admin"
            THEN e \in query.result <=>
                    (e.tag = "STUDENT_MOVEMENT" \/ InSeq(StudentMovement, e.content.folder))
            ELSE e \in query.result

\* C4 witness: a viewer was given an entry of Today's Event although the folder
\* is configured with {admin}
C4_Witness ==
    /\ query.role = "viewer"
    /\ \E e \in query.result : InEventCategory(e) /\ OwningRoles(e) = {"admin"}

\* an entry outside Today's Event without folder attribution or whose folder
\* has no rules
Unruled(e) ==
    /\ ~InEventCategory(e)
    /\ e.content.drive_folder_id = "" \/ OwningRoles(e) = {}

\* C5 as stated: such an entry is given to the elevated roles only
C5_Original ==
    \A e \in query.entries :
        (Unruled(e) /\ e \in query.result)
            => query.role \in {"relief_member", "admin", "superadmin"}

\* C5: such an entry is given to relief_member, admin and superadmin, to
\* student_admin exactly when it is a Student Movement entry, and never to a
\* viewer
C5_DefaultAllow ==
    \A e \in query.entries :
        Unruled(e) =>
            (e \in query.result <=>
                \/ query.role \in {"relief_member", "admin", "superadmin"}
                \/ /\ query.role = "student_admin"
                   /\ (e.tag = "STUDENT_MOVEMENT"
                          \/ InSeq(StudentMovement, e.content.folder)))

\* C5 witness: a viewer asked and both a manual upload and an entry of a folder
\* without rules were withheld
C5_Witness ==
    /\ query.role = "viewer"
    /\ \E e \in query.entries :
          e.content.drive_folder_id = "" /\ e \notin query.result
    /\ \E e \in query.entries :
          /\ e.content.drive_folder_id # "" /\ Unruled(e)
          /\ e \notin query.result

-----------------------------------------------------------------------------
(* Properties of the date filter *)

\* C7 as stated: a name DD_MM_YY_<title> or DD_MM_YYYY_<title> is included
\* exactly when its date is the local date
C7_Original ==
    (probe # NoProbe /\ DatedNameYearLen(probe.filename) # 0) =>
        (probe.result.is_match <=> EmbeddedDate(probe.filename) = DateOf(today))

\* C7: a name is included exactly when it has the form DD_MM_YY_<title>.pdf or
\* DD_MM_YYYY_<title>.pdf (title not empty, extension in either case) and its
\* date is the local date
C7_DateFilter ==
    probe # NoProbe =>
        (probe.result.is_match <=>
            /\ DatedPdfName(probe.filename)
            /\ EmbeddedDate(probe.filename) = DateOf(today))

\* C7 witness: 05_03_2025_a.pdf is included on 5 March 2025
C7_Witness ==
    /\ today = 1
    /\ probe.filename = <<"0", "5", "_", "0", "3", "_", "2", "0", "2", "5", "_", "a",
                          ".", "p", "d", "f">>
    /\ probe.result.is_match

-----------------------------------------------------------------------------
(* The subscriptions' timers: SubscriptionManager.renewExpiring and           *)
(* deactivateExpired, run by the periodic sweep on the bot's event loop over   *)
(* Database.get_all_active_webhooks, save_webhook and deactivate_webhook       *)

\* a subscription is renewed when it expires in less than this many hours
RenewWindow == 24

\* the hours between two sweeps, and the hours a behaviour spans
SweepInterval == 12
MaxHour == 48

\* the hours pass
Tick ==
    /\ hour < MaxHour
    /\ hour' = hour + SweepInterval
    /\ UNCHANGED <<today, clock, drive_folders, folder_role_access, daily_entries,
                   entry_seq, drive_sync_log, drive_webhooks, shortcut_targets, feed,
                   main, threads, query, probe, faults, renewal, response, walk>>

\* the subscriptions renewExpiring(now) picks from its scan
expiring(W, now) == {w \in get_all_active_webhooks(W) : w.expires_at - now < RenewWindow}

\* renewExpiring takes a subscription of its scan and stops the old channel
\* (best-effort: the outcome of the stop changes nothing)
renew_begin(w) ==
    /\ renewal = NoRenewal
    /\ w \in expiring(drive_webhooks, hour)
    /\ renewal' = [pc |-> "registering", channel_id |-> w.channel_id,
                   folder_id |-> w.folder_id, page_token |-> w.page_token]
    /\ UNCHANGED <<today, clock, drive_folders, folder_role_access, daily_entries,
                   entry_seq, drive_sync_log, drive_webhooks, shortcut_targets, feed,
                   main, threads, query, probe, faults, hour, response, walk>>

\* the external store answers the request for the new channel: the new row is
\* stored with the cursor of the scan, or the renewal is given up
renew_register(outcome) ==
    /\ renewal.pc = "registering"
    /\ IF outcome = "ok"
       THEN /\ Cardinality(drive_webhooks) < MaxChannels
            /\ drive_webhooks' = save_webhook(drive_webhooks, renewal.folder_id,
                                              new_channel_id(drive_webhooks),
                                              renewal.page_token,
                                              hour + ChannelLifetime)
            /\ renewal' = [renewal EXCEPT !.pc = "saved"]
            /\ UNCHANGED faults
       ELSE /\ faults < MaxFaults
            /\ faults' = faults + 1
            /\ renewal' = [renewal EXCEPT !.pc = "failed"]
            /\ UNCHANGED drive_webhooks
    /\ UNCHANGED <<today, clock, drive_folders, folder_role_access, daily_entries,
                   entry_seq, drive_sync_log, shortcut_targets, feed, main, threads,
                   query, probe, hour, response, walk>>

\* the failed renewal is given up: the sweep goes on, the old row is left alone
renew_failed ==
    /\ renewal.pc = "failed"
    /\ renewal' = NoRenewal
    /\ UNCHANGED <<today, clock, drive_folders, folder_role_access, daily_entries,
                   entry_seq, drive_sync_log, drive_webhooks, shortcut_targets, feed,
                   main, threads, query, probe, faults, hour, response, walk>>

\* the old row is marked inactive
renew_retire ==
    /\ renewal.pc = "saved"
    /\ drive_webhooks' = deactivate_webhook(drive_webhooks, renewal.channel_id)
    /\ renewal' = NoRenewal
    /\ UNCHANGED <<today, clock, drive_folders, folder_role_access, daily_entries,
                   entry_seq, drive_sync_log, shortcut_targets, feed, main, threads,
                   query, probe, faults, hour, response, walk>>

\* deactivateExpired(now): a subscription past its expiry is marked inactive
deactivate_expired(w) ==
    /\ renewal = NoRenewal
    /\ w \in get_all_active_webhooks(drive_webhooks)
    /\ hour > w.expires_at
    /\ drive_webhooks' = deactivate_webhook(drive_webhooks, w.channel_id)
    /\ UNCHANGED <<today, clock, drive_folders, folder_role_access, daily_entries,
                   entry_seq, drive_sync_log, shortcut_targets, feed, main, threads,
                   query, probe, faults, hour, renewal, response, walk>>

\* the bot after the discovery of its folders
InitRenew ==
    /\ today = 1
    /\ clock = 0
    /\ drive_folders = discover_folders({}, list_folders(GOOGLE_DRIVE_ROOT_FOLDER_ID))
    /\ folder_role_access = {}
    /\ daily_entries = {}
    /\ entry_seq = 1
    /\ drive_sync_log = <<>>
    /\ drive_webhooks = {}
    /\ shortcut_targets = {}
    /\ feed = <<>>
    /\ main = Idle
    /\ threads = [t \in 1..MaxThreads |-> Idle]
    /\ query = NoQuery
    /\ probe = NoProbe
    /\ faults = 0
    /\ hour = 0
    /\ renewal = NoRenewal
    /\ response = 0
    /\ walk = NoWalk

NextRenew ==
    \/ \E folder \in {f \in drive_folders : f.folder_name \in EngineFolders} :
            register_webhook(folder)
    \/ Tick
    \/ \E w \in drive_webhooks : renew_begin(w)
    \/ \E outcome \in {"ok", "failed"} : renew_register(outcome)
    \/ renew_failed
    \/ renew_retire
    \/ \E w \in drive_webhooks : deactivate_expired(w)
    \/ \E file_id \in FeedFiles : DriveChange(file_id)
    \/ \E w \in drive_webhooks, resource_state \in ResourceStates :
            \E body \in Bodies : handle_drive_webhook(w.channel_id, resource_state, body)
    \/ \E t \in 1..MaxThreads :
            \/ process_drive_changes(t)
            \/ process_drive_changes_fetch(t)
            \/ sync_changed_files_file(t)
            \/ sync_changed_files_finish(t)
            \/ process_drive_changes_token(t)
            \/ process_drive_changes_crash(t)

SpecRenew == InitRenew /\ [][NextRenew]_vars

-----------------------------------------------------------------------------
(* Renewal *)

\* the row of a channel
ChannelRow(W, channel_id) == CHOOSE w \in W : w.channel_id = channel_id

\* the step that stores the replacement, and the step that retires the old row
RenewSaves == renewal.pc = "registering" /\ renewal'.pc = "saved"
RenewRetires == renewal.pc = "saved" /\ renewal'.pc = "idle"

\* the step stores exactly one new row: active, of the old row's folder, with
\* the given cursor; no other row changes
Replaces(cursor) ==
    LET old == ChannelRow(drive_webhooks, renewal.channel_id)
        added == drive_webhooks' \ drive_webhooks
    IN  /\ drive_webhooks \subseteq drive_webhooks'
        /\ Cardinality(added) = 1
        /\ \A w \in added : /\ w.active
                             /\ w.folder_id = old.folder_id
                             /\ w.channel_id # old.channel_id
                             /\ w.page_token = cursor

\* the step marks the old row inactive and leaves every other row alone: the
\* replacement is the one row of the renewal that is active
Retires ==
    /\ ~ChannelRow(drive_webhooks', renewal.channel_id).active
    /\ \A w \in drive_webhooks : w.channel_id # renewal.channel_id => w \in drive_webhooks'
    /\ Cardinality(drive_webhooks') = Cardinality(drive_webhooks)

ActiveChannels(W) == {w.channel_id : w \in get_all_active_webhooks(W)}

\* the rows a step marks inactive
Deactivated == {w \in get_all_active_webhooks(drive_webhooks) :
                   w.channel_id \notin ActiveChannels(drive_webhooks')}

WatchedFolders(W) == {w.folder_id : w \in W}

\* C13: while no renewal is in progress, every watched folder has exactly one
\* active subscription row; registering a channel for a folder that already
\* has an active subscription does not leave it with two.
C13_OneActivePerFolder ==
    renewal = NoRenewal =>
        \A f \in WatchedFolders(drive_webhooks) :
            Cardinality({w \in get_all_active_webhooks(drive_webhooks) :
                            w.folder_id = f}) = 1

-----------------------------------------------------------------------------
(* The walk up the parent chain, one iteration of its while loop per step:    *)
(* process_drive_changes ("webhook") and DriveSync.get_file_folder_path        *)
(* ("path"), over folder metadata the external store may return               *)

\* the folders 1..MaxChain, the watched folder, and "no folder" (None)
WalkFolders == 1..MaxChain
WatchedFolder == MaxChain + 1
NoParent == 0

\* folder n lies in folder n + 1, up to folder len, whose parents are top
ParentChain(len, top) ==
    [n \in 1..(MaxChain + 1) |->
        IF n < len THEN <<n + 1>> ELSE IF n = len THEN top ELSE <<>>]

\* the metadata put to the walk: chains that end below the watched folder,
\* chains that end nowhere, a second parent that is the watched folder, and
\* chains whose last folder names an earlier one as its parent (a cycle)
ParentMaps ==
    {ParentChain(len, top) : len \in WalkFolders, top \in {<<>>, <<WatchedFolder>>}}
        \cup {ParentChain(len, <<back, WatchedFolder>>) : len \in 1..2, back \in 1..2}
        \cup {ParentChain(len, <<back>>) : len \in WalkFolders, back \in 1..3}

\* variant: the loop goes on while there is a parent, whatever the depth
walk_goes_on_unbounded(current, depth) == current # NoParent

\* while current_parent and depth < max_depth
walk_goes_on(current, depth) == current # NoParent /\ depth < max_depth

\* the walk starts at the file's first parent
walk_start(kind, parents) ==
    /\ walk.pc = "none"
    /\ walk' = [pc |-> "loop", kind |-> kind, parents |-> parents, current |-> 1,
                depth |-> 0, in_watched_tree |-> FALSE]
    /\ UNCHANGED <<today, clock, drive_folders, folder_role_access, daily_entries,
                   entry_seq, drive_sync_log, drive_webhooks, shortcut_targets, feed,
                   main, threads, query, probe, faults, hour, renewal, response>>

\* the parents of a file that lies in the watched folder itself
DirectParents == {<<WatchedFolder>>, <<1, WatchedFolder>>}

\* variant: a file directly in the watched folder is answered "not in the tree"
walk_direct_none(file_parents) ==
    /\ walk.pc = "none"
    /\ InSeq(WatchedFolder, file_parents)
    /\ walk' = [pc |-> "direct", kind |-> "webhook", file_parents |-> file_parents,
                depth |-> 0, in_watched_tree |-> FALSE]
    /\ UNCHANGED <<today, clock, drive_folders, folder_role_access, daily_entries,
                   entry_seq, drive_sync_log, drive_webhooks, shortcut_targets, feed,
                   main, threads, query, probe, faults, hour, renewal, response>>

\* "if folder_id in parents": the file is taken at once, no folder is looked up
walk_direct(file_parents) ==
    /\ walk.pc = "none"
    /\ InSeq(WatchedFolder, file_parents)
    /\ walk' = [pc |-> "direct", kind |-> "webhook", file_parents |-> file_parents,
                depth |-> 0, in_watched_tree |-> TRUE]
    /\ UNCHANGED <<today, clock, drive_folders, folder_role_access, daily_entries,
                   entry_seq, drive_sync_log, drive_webhooks, shortcut_targets, feed,
                   main, threads, query, probe, faults, hour, renewal, response>>

\* one test of the loop condition and, when it holds, one run of the loop body
walk_step ==
    /\ walk.pc = "loop"
    /\ LET parent_parents == walk.parents[walk.current]
       IN  walk' =
             IF ~walk_goes_on(walk.current, walk.depth)
             THEN [walk EXCEPT !.pc = "done"]
             ELSE IF walk.kind = "webhook"
             THEN IF InSeq(WatchedFolder, parent_parents)
                  THEN [walk EXCEPT !.pc = "done", !.in_watched_tree = TRUE]
                  ELSE IF parent_parents = <<>>
                  THEN [walk EXCEPT !.pc = "done"]
                  ELSE [walk EXCEPT !.current = parent_parents[1], !.depth = @ + 1]
             ELSE IF walk.current = WatchedFolder
                  THEN [walk EXCEPT !.pc = "done", !.in_watched_tree = TRUE]
                  ELSE [walk EXCEPT !.current = IF parent_parents # <<>>
                                                THEN parent_parents[1] ELSE NoParent,
                                    !.depth = @ + 1]
    /\ UNCHANGED <<today, clock, drive_folders, folder_role_access, daily_entries,
                   entry_seq, drive_sync_log, drive_webhooks, shortcut_targets, feed,
                   main, threads, query, probe, faults, hour, renewal, response>>

InitWalk ==
    /\ today = 1
    /\ clock = 0
    /\ drive_folders = {}
    /\ folder_role_access = {}
    /\ daily_entries = {}
    /\ entry_seq = 1
    /\ drive_sync_log = <<>>
    /\ drive_webhooks = {}
    /\ shortcut_targets = {}
    /\ feed = <<>>
    /\ main = Idle
    /\ threads = [t \in 1..MaxThreads |-> Idle]
    /\ query = NoQuery
    /\ probe = NoProbe
    /\ faults = 0
    /\ hour = 0
    /\ renewal = NoRenewal
    /\ response = 0
    /\ walk = NoWalk

NextWalk ==
    \/ \E kind \in {"webhook", "path"}, parents \in ParentMaps : walk_start(kind, parents)
    \/ \E file_parents \in DirectParents : walk_direct(file_parents)
    \/ walk_step

\* the thread that runs the loop keeps running
SpecWalk == InitWalk /\ [][NextWalk]_vars /\ WF_vars(NextWalk)

\* the k-th folder above the start of the chain (NoParent past its end)
RECURSIVE Above(_, _)
Above(parents, k) ==
    IF k = 0 THEN 1
    ELSE LET below == Above(parents, k - 1)
         IN  IF below = NoParent \/ parents[below] = <<>> THEN NoParent
             ELSE parents[below][1]

\* the watched folder is met within the first max_depth levels of the chain
WatchedWithin(kind, parents) ==
    \E k \in 0..(max_depth - 1) :
        /\ Above(parents, k) # NoParent
        /\ IF kind = "webhook"
           THEN InSeq(WatchedFolder, parents[Above(parents, k)])
           ELSE Above(parents, k) = WatchedFolder

\* C14: the walk up the parent chain ends on every chain, cyclic ones
\* included, after at most max_depth levels, and it answers "in the watched
\* tree" exactly when the watched folder is met within those levels: a chain
\* that exceeds the depth without reaching the watched folder gets false.
C14_WalkBounded ==
    /\ [](walk.pc # "none" => walk.depth <= max_depth)
    /\ [](walk.pc = "done" =>
            walk.in_watched_tree = WatchedWithin(walk.kind, walk.parents))
    /\ [](walk.pc = "loop" => <>(walk.pc = "done"))

\* a walk over a cyclic chain has ended at the depth bound with the answer false
C14_Witness ==
    /\ walk.pc = "done"
    /\ walk.depth = max_depth
    /\ ~walk.in_watched_tree
    /\ \E k \in 1..max_depth : Above(walk.parents, k) = 1

-----------------------------------------------------------------------------
(* The notification endpoint *)

\* C15: every POST to the notification endpoint is answered with status 200,
\* whatever its headers, body and resource state.
C15_AlwaysOk == response \in {0, 200}

\* the step starts a background pass for the channel
PassStarted(channel_id) ==
    \E t \in 1..MaxThreads :
        /\ threads[t].kind = "none"
        /\ threads'[t].kind = "webhook"
        /\ threads'[t].pc = "lookup"
        /\ threads'[t].channel_id = channel_id

\* the tables and the change feed
Persisted == <<drive_folders, folder_role_access, daily_entries, entry_seq,
               drive_sync_log, drive_webhooks, shortcut_targets, feed>>

\* C16: a POST starts a background pass for its channel id if and only if its
\* resource state is update or change; a sync or trash POST starts no pass
\* and changes no persisted state.
C16_Dispatch ==
    [][\A w \in drive_webhooks, resource_state \in ResourceStates, body \in Bodies :
          handle_drive_webhook(w.channel_id, resource_state, body) =>
              /\ PassStarted(w.channel_id) <=> resource_state \in {"update", "change"}
              /\ resource_state \in {"sync", "trash"} =>
                    threads' = threads /\ Persisted' = Persisted]_vars

\* C17: the acknowledgement of an update or change notification is given in
\* the step that starts the pass: at that moment the pass has not run at all,
\* nothing has been fetched or written, and the pass goes on in its own
\* thread after the answer.
C17_AckBeforePass ==
    [][\A w \in drive_webhooks, resource_state \in {"update", "change"} :
          handle_drive_webhook(w.channel_id, resource_state, "parsed") =>
              /\ response' = 200
              /\ PassStarted(w.channel_id)
              /\ Persisted' = Persisted]_vars

\* the answer 200 is out while the pass of the notification is in the middle
\* of its files
C17_Witness ==
    /\ response = 200
    /\ \E t \in 1..MaxThreads :
          /\ threads[t].kind = "webhook"
          /\ threads[t].pc = "files"
          /\ threads[t].i <= Len(threads[t].files)

-----------------------------------------------------------------------------
(* The cursor of a notification pass *)

\* the subscriptions whose stored cursor the step changes
CursorMoved ==
    {w \in drive_webhooks :
        \E v \in drive_webhooks' : v.channel_id = w.channel_id
                                    /\ v.page_token # w.page_token}

\* the cursor of w is written by a pass of w's channel in its last step, after
\* it has been through all its candidate files, and gets the cursor that pass
\* fetched with its changes
WrittenAtEnd(w) ==
    \E t \in 1..MaxThreads :
        /\ threads[t].kind = "webhook" /\ threads[t].pc = "token"
        /\ threads'[t].kind = "none"
        /\ threads[t].channel_id = w.channel_id
        /\ threads[t].i > Len(threads[t].files)
        /\ Len(threads[t].outcomes) = Len(threads[t].files)
        /\ ChannelRow(drive_webhooks', w.channel_id).page_token
               = threads[t].new_page_token

ReadsCursor(t) == threads[t].pc = "lookup" /\ threads'[t].pc = "fetch"
FetchesWindow(t) == threads[t].pc = "fetch" /\ threads'[t].pc \in {"files", "token"}
Crashes(t) == threads[t].pc # "crashed" /\ threads'[t].pc = "crashed"

-----------------------------------------------------------------------------
(* The sync log *)

\* rows are only ever added at the end of the log
AppendOnly ==
    /\ Len(drive_sync_log') >= Len(drive_sync_log)
    /\ SubSeq(drive_sync_log', 1, Len(drive_sync_log)) = drive_sync_log

\* the step adds one row for the folder and sets the folder's sync time
LogsOnce(folder) ==
    /\ Len(drive_sync_log') = Len(drive_sync_log) + 1
    /\ drive_sync_log'[Len(drive_sync_log')].folder_id = folder.id
    /\ \A r \in drive_folders' : r.id = folder.id => r.last_synced_at = clock

\* pass p, becoming q, is through with the files it found in its folder
FilesDone(p, q) ==
    /\ p.kind # "none" /\ p.pc = "files" /\ q.pc \notin {"files", "crashed"}

\* pass p, becoming q, found no candidate file in its folder and is through
\* with it: a notification pass after its fetch, an on-demand pass that goes
\* on to its next folder
NothingToDo(p, q) ==
    \/ p.kind = "webhook" /\ p.pc = "fetch" /\ q.pc = "token"
    \/ p.kind = "ondemand" /\ p.pc = "folder" /\ q.pc = "folder" /\ p.todo # <<>>
          /\ q.todo = Tail(p.todo)

\* the folder pass p, becoming q, is through with
FolderOf(p, q) ==
    IF p.kind = "webhook" /\ p.pc = "fetch" THEN q.folder
    ELSE IF p.pc = "folder" THEN Head(p.todo)
    ELSE p.folder

LoggedWhenDone(p, q) ==
    (FilesDone(p, q) \/ NothingToDo(p, q)) => LogsOnce(FolderOf(p, q))

\* C20: every pass that gets through with a folder, whatever started it and
\* also when it found no candidate file, adds exactly one row for that folder
\* to the sync log and sets the folder's sync time in that step; no row of the
\* log is ever changed or removed.
C20_OneLogRowPerPass ==
    [][/\ AppendOnly
       /\ LoggedWhenDone(main, main')
       /\ \A t \in 1..MaxThreads : LoggedWhenDone(threads[t], threads'[t])]_vars

-----------------------------------------------------------------------------
(* The passes of the event loop alone: /setfolder, the scheduled jobs of     *)
(* every folder of SYNC_SCHEDULE and /sync, with the exceptions that end a    *)
(* folder's pass.  The handler of a command or job runs to its end once it    *)
(* has started: nothing else runs on the loop meanwhile.                      *)

NextSweep ==
    \/ \E folder_name \in SYNC_SCHEDULE, roles \in SpecRoleSets :
            set_folder(SyncUser, folder_name, roles)
    \/ \E folder_name \in SYNC_SCHEDULE : sync_folder_job(folder_name)
    \/ sync_folder_job_file
    \/ sync_folder_job_finish
    \/ \E user_id \in SyncCallers : sync_drive(user_id)
    \/ sync_drive_folder
    \/ sync_drive_file
    \/ sync_drive_folder_finish
    \/ \E stage \in AbortStages : sync_drive_folder_abort(stage)
    \/ sync_drive_report
    \/ NextDay

SpecSweep == Init /\ [][NextSweep]_vars

\* the error the sweep records for a folder whose pass was aborted
FolderError(folder) == [file |-> folder.drive_folder_id, why |-> "folder_exception"]

\* the sweep in progress has aborted the pass of some folder
HasAborted(p) ==
    p.kind = "ondemand" /\ \E k \in 1..Len(p.errors) : p.errors[k].why = "folder_exception"

\* the files /sync takes from a folder on the current day
SweepFiles(folder) ==
    LET listed == list_files_in_folder(folder.drive_folder_id)
    IN  IF folder.folder_name = TodaysEvent
        THEN TodaysEventFiles(listed, DateOf(today)) ELSE listed

\* the step a sweep that has aborted a folder takes from its loop over the
\* folders: the next folder is taken with its files, or passed over because it
\* has none today, or aborted in its turn
TakesNext(p, q) ==
    (HasAborted(p) /\ p.pc = "folder" /\ p.todo # <<>> /\ q # p) =>
        LET folder == Head(p.todo)
        IN  /\ q.kind = "ondemand"
            /\ \/ /\ SweepFiles(folder) # <<>>
                  /\ q.pc = "files" /\ q.folder = folder /\ q.todo = p.todo
                  /\ q.files = PlainFiles(SweepFiles(folder)) /\ q.i = 1
               \/ /\ SweepFiles(folder) = <<>>
                  /\ q.pc = "folder" /\ q.todo = Tail(p.todo) /\ q.errors = p.errors
               \/ /\ q.pc = "folder" /\ q.todo = Tail(p.todo)
                  /\ q.errors = Append(p.errors, FolderError(folder))

\* C21: an exception that ends one folder's pass of an on-demand sweep leaves
\* the sweep running on the folders after it, writes no entry and no log row
\* and adds the folder to the errors of the sweep; the sweep then takes every
\* folder still to do in its turn, with all of the folder's files, and ends
\* only when no folder is left
C21_FolderIsolation ==
    [][/\ \A stage \in AbortStages :
            sync_drive_folder_abort(stage) =>
                /\ main'.kind = "ondemand" /\ main'.pc = "folder"
                /\ main'.todo = Tail(main.todo)
                /\ main'.errors = Append(main.errors, FolderError(Head(main.todo)))
                /\ daily_entries' = daily_entries
                /\ drive_sync_log' = drive_sync_log
       /\ TakesNext(main, main')
       /\ (main.kind = "ondemand" /\ main'.kind # "ondemand") =>
              (main.pc = "folder" /\ main.todo = <<>>)]_vars

\* C21 witness: the sweep aborted the pass of the Relief Committee folder and
\* has since saved a file of the Today's Event folder
C21_Witness ==
    /\ main.kind = "ondemand" /\ main.pc = "files"
    /\ main.folder.folder_name = TodaysEvent
    /\ main.wrote # {}
    /\ \E k \in 1..Len(main.errors) :
          main.errors[k] = FolderError(get_folder_by_name(drive_folders, ReliefCommittee))
    /\ \E e \in daily_entries :
          /\ e.content.drive_folder_id = main.folder.drive_folder_id
          /\ e.timestamp = clock

-----------------------------------------------------------------------------
(* Extraction *)

\* the entries the passes wrote (an upload has no source)
SyncedEntries == {e \in daily_entries : e.content.source # ""}

\* C22: a file whose text extraction fails during a pass is skipped: the pass
\* writes or updates no entry for it, so no entry holds the text of a failed
\* analysis
C22_FailedExtractionSkipsFile ==
    \A e \in SyncedEntries : e.content.extracted_text.text # "analysis_failed"

-----------------------------------------------------------------------------
(* The gate of the on-demand sweep *)

\* the rows and cursors the engine persists
persisted == <<drive_folders, folder_role_access, daily_entries, entry_seq,
               drive_sync_log, drive_webhooks, shortcut_targets>>

\* C23: /sync from a requester outside the elevated roles changes no persisted
\* state and starts no sweep, so every sweep in progress is an elevated
\* requester's; folders are discovered by /sync only for an elevated requester
\* and only when no folder is registered
C23_SyncGated ==
    /\ [](main.kind = "ondemand" => Users[main.user] \in SyncRoles)
    /\ [][\A u \in SyncCallers :
             sync_drive(u) =>
                 /\ Users[u] \notin SyncRoles =>
                        (persisted' = persisted /\ main' = main)
                 /\ drive_folders' # drive_folders =>
                        (Users[u] \in SyncRoles /\ drive_folders = {})]_vars

\* C23 witness: a request was made and refused: time has passed and nothing
\* is registered, written or in progress
C23_Witness ==
    /\ clock > 0
    /\ main = Idle
    /\ drive_folders = {} /\ daily_entries = {} /\ drive_sync_log = <<>>

-----------------------------------------------------------------------------
(* The frame of the passes on the registered folders *)

\* /setfolder, the administrative command
AdminStep ==
    \E folder_name \in SYNC_SCHEDULE, roles \in SpecRoleSets :
        set_folder(SyncUser, folder_name, roles)

\* the row of T2 with the id of r keeps every field of r but last_synced_at
KeepsFolder(r, T2) ==
    \E q \in T2 : /\ q.id = r.id
                  /\ q.drive_folder_id = r.drive_folder_id
                  /\ q.folder_name = r.folder_name
                  /\ q.parent_folder_id = r.parent_folder_id

\* C24: a step of a pass (its auto-discovery included) deletes no registered
\* folder, changes no field of a registered folder but last_synced_at, and
\* leaves the folder access rules as they are
C24_FolderFrame ==
    [][~AdminStep =>
           /\ \A r \in drive_folders : KeepsFolder(r, drive_folders')
           /\ folder_role_access' = folder_role_access]_vars

-----------------------------------------------------------------------------
(* Membership of the watched subtree *)

\* the folders reached from the folders of S over any parent link, in at most
\* n levels
RECURSIVE Ancestors(_, _, _)
Ancestors(parents, S, n) ==
    IF n = 0 THEN S
    ELSE Ancestors(parents,
                   S \cup UNION {{parents[x][i] : i \in 1..Len(parents[x])} : x \in S},
                   n - 1)

\* C25: the membership check of the notification pass answers true at once,
\* with no folder looked up, for a file whose parents include the watched
\* folder; for any other file it answers true exactly when the watched folder
\* is a parent of one of the first max_depth folders on the chain of first
\* parents above the file; and it never answers true for a file the watched
\* folder is no ancestor of
C25_MembershipExact ==
    /\ walk.pc = "direct" =>
           (walk.in_watched_tree /\ walk.depth = 0)
    /\ (walk.pc = "done" /\ walk.kind = "webhook") =>
           /\ walk.in_watched_tree <=>
                  \E k \in 0..(max_depth - 1) :
                      /\ Above(walk.parents, k) # NoParent
                      /\ InSeq(WatchedFolder, walk.parents[Above(walk.parents, k)])
           /\ walk.in_watched_tree =>
                  WatchedFolder \in Ancestors(walk.parents, {1}, MaxChain + 1)

\* C25 witness: the walk found the watched folder at the last level the
\* bound allows
C25_Witness ==
    /\ walk.pc = "done" /\ walk.kind = "webhook"
    /\ walk.in_watched_tree
    /\ walk.depth = max_depth - 1

-----------------------------------------------------------------------------
(* The notification passes alone: one watched folder, the changes the store  *)
(* reports of files in it, beside it and below it, and the passes of the     *)
(* background threads the notifications start                                *)

\* the threads a burst of notifications starts
NotifyThreads == 2
\* the changes the store reports while they run
NotifyFeed == 2

\* the files and folders the store reports changes of
NotifyFiles == {"r1", "s1", "x1", "e2", "fSub", "u1", "z1", "z2"}

\* the external store reports a change of file_id
NotifyChange(file_id) ==
    /\ drive_webhooks # {}
    /\ Len(feed) < NotifyFeed
    /\ feed' = Append(feed, file_id)
    /\ UNCHANGED <<today, clock, drive_folders, folder_role_access, daily_entries,
                   entry_seq, drive_sync_log, drive_webhooks, shortcut_targets, main,
                   threads, query, probe, faults,
                   hour, renewal, response, walk>>

InitNotify ==
    /\ today = 1
    /\ clock = 0
    /\ drive_folders = {}
    /\ folder_role_access = {}
    /\ daily_entries = {}
    /\ entry_seq = 1
    /\ drive_sync_log = <<>>
    /\ drive_webhooks = {}
    /\ shortcut_targets = {}
    /\ feed = <<>>
    /\ main = Idle
    /\ threads = [t \in 1..NotifyThreads |-> Idle]
    /\ query = NoQuery
    /\ probe = NoProbe
    /\ faults = 0
    /\ hour = 0
    /\ renewal = NoRenewal
    /\ response = 0
    /\ walk = NoWalk

NextNotify ==
    \/ \E roles \in SpecRoleSets : set_folder(SyncUser, ReliefCommittee, roles)
    \/ \E folder \in Unwatched : register_webhook(folder)
    \/ \E shortcut_id \in DriveIds, folder \in drive_folders :
            track_shortcut(shortcut_id, folder)
    \/ \E file_id \in NotifyFiles : NotifyChange(file_id)
    \/ \E w \in drive_webhooks : handle_drive_webhook(w.channel_id, "change", "parsed")
    \/ \E t \in DOMAIN threads :
            \/ process_drive_changes(t)
            \/ process_drive_changes_fetch(t)
            \/ sync_changed_files_file(t)
            \/ sync_changed_files_finish(t)
            \/ process_drive_changes_token(t)
            \/ process_drive_changes_crash(t)

SpecNotify == InitNotify /\ [][NextNotify]_vars

\* the objects reached from the objects of S over any parent link, in at most
\* n levels
RECURSIVE DriveAncestors(_, _)
DriveAncestors(S, n) ==
    IF n = 0 THEN S
    ELSE DriveAncestors(
             S \cup UNION {{DriveMeta[x].parents[i] : i \in 1..Len(DriveMeta[x].parents)}
                              : x \in S},
             n - 1)

\* the file lies in the watched folder or below it, or a binding of the
\* folder names it as the target of a shortcut
ResolvesInto(file_id, folder_id) ==
    \/ folder_id \in DriveAncestors({file_id}, Cardinality(DriveIds)) \ {file_id}
    \/ \E r \in shortcut_targets :
          r.target_file_id = file_id /\ r.watched_folder_id = folder_id

\* document, spreadsheet, presentation, PDF and image
IngestKinds == {DOC_MIME, SHEET_MIME, SLIDES_MIME, PDF_MIME, PNG_MIME}

\* the files a notification pass took as its candidates
Candidates(p) == {p.files[j].id : j \in 1..Len(p.files)}

\* the candidates of every notification pass, and the files of every entry a
\* notification pass wrote, are of the kinds of K or meet the test ByName
KindsIngested(K, ByName(_)) ==
    /\ \A t \in DOMAIN threads :
          threads[t].kind = "webhook" =>
              \A f \in Candidates(threads[t]) :
                  DriveMeta[f].mimeType \in K \/ ByName(DriveMeta[f].name)
    /\ \A e \in SyncedEntries :
          e.content.source = "google_drive_webhook" =>
              \/ DriveMeta[e.content.drive_file_id].mimeType \in K
              \/ ByName(DriveMeta[e.content.drive_file_id].name)

\* every candidate of a notification pass is named in the delta the pass
\* fetched, is no folder and resolves into the watched folder of the channel
FromDeltaInSubtree ==
    \A t \in DOMAIN threads :
        threads[t].kind = "webhook" =>
            \A f \in Candidates(threads[t]) :
                /\ InSeq(f, threads[t].changes)
                /\ InSeq(f, get_changes(feed, threads[t].page_token).changes)
                /\ DriveMeta[f].mimeType # FOLDER_MIME
                /\ ResolvesInto(f, threads[t].folder.drive_folder_id)

NoName(name) == FALSE
PdfName(name) == EndsWith(Lower(name), DotPdf)

-----------------------------------------------------------------------------
(* Shortcuts *)

\* the entry a pass writes for the file itself, in what depends on the file:
\* its type and its extracted text (as the analysis of the entry went)
IngestedAs(file_id, raises) ==
    [type |-> FileType(DriveMeta[file_id].mimeType),
     extracted_text |-> extracted_text(file_id, raises)]

\* C27: the entry written for a shortcut is the entry its final target would
\* get: the bytes are those of the first file of the chain that is no
\* shortcut, and type and extracted text are those the target's own mime kind
\* gives
C27_ShortcutAsTarget ==
    \A e \in SyncedEntries :
        DriveMeta[e.content.drive_file_id].mimeType = SHORTCUT_MIME =>
            LET target == get_file_content(e.content.drive_file_id)
                raises == e.content.extracted_text.text = "analysis_failed"
            IN  /\ DriveMeta[target].mimeType # SHORTCUT_MIME
                /\ [type |-> e.content.type,
                    extracted_text |-> e.content.extracted_text]
                       = IngestedAs(target, raises)

-----------------------------------------------------------------------------
(* The cursor under concurrent passes *)

\* C28: whatever passes run for a channel and however their steps interleave,
\* the cursor stored for the channel never moves back: a pass that finishes
\* late does not replace a newer cursor by the older one it was given
C28_CursorNeverBack ==
    [][\A w \in drive_webhooks, w2 \in drive_webhooks' :
           w2.channel_id = w.channel_id => w2.page_token >= w.page_token]_vars

-----------------------------------------------------------------------------
(* The sync log of a sweep *)

\* the error is the failure of a file of the folder, or of the folder itself
ErrorOfFolder(error, drive_folder_id) ==
    \/ error.file = drive_folder_id
    \/ InSeq(drive_folder_id, DriveMeta[error.file].parents)

\* C29: every error of a row of the sync log is a failure of the pass over
\* the row's own folder: a failure met earlier in a sweep is in no row of a
\* folder the sweep takes later
C29_ErrorsOfOwnPass ==
    \A k \in 1..Len(drive_sync_log) :
        LET row == drive_sync_log[k]
            folder == CHOOSE f \in drive_folders : f.id = row.folder_id
        IN  \A j \in 1..Len(row.errors) :
                ErrorOfFolder(row.errors[j], folder.drive_folder_id)

-----------------------------------------------------------------------------
(* The counts of a pass *)

\* the passes in progress
Passes == {main} \cup {threads[t] : t \in DOMAIN threads}

\* the failures a pass has recorded for its own candidate files
FailuresOf(p) ==
    Cardinality({k \in 1..Len(p.errors) : p.errors[k].file \in Candidates(p)})

\* the step from p to q takes one candidate file: either its entry is there,
\* written at this time, and the counter is one higher, or one failure naming
\* the file is added and no entry is touched
AccountsFile(p, q) ==
    (p.kind # "none" /\ q.kind = p.kind /\ p.i >= 1 /\ q.i = p.i + 1) =>
        LET f == p.files[p.i].id
        IN  \/ /\ q.processed = p.processed + 1
               /\ q.errors = p.errors
               /\ \E e \in daily_entries' :
                     /\ e.content.source # ""
                     /\ e.content.drive_file_id = f
                     /\ e.date = today /\ e.timestamp = clock
            \/ /\ q.processed = p.processed
               /\ Len(q.errors) = Len(p.errors) + 1
               /\ q.errors[Len(q.errors)].file = f
               /\ SubSeq(q.errors, 1, Len(p.errors)) = p.errors
               /\ daily_entries' = daily_entries

\* the row is the count of a pass that has taken all its files
CountsOf(row, p) ==
    /\ p.kind # "none" /\ p.i > Len(p.files)
    /\ row.folder_id = p.folder.id
    /\ row.files_synced = Len(p.files)
    /\ row.files_processed = p.processed
    /\ p.processed + FailuresOf(p) = Len(p.files)

\* C30: every step of a pass over a candidate file either saves the file's
\* entry and counts it as processed or records exactly one failure for it;
\* the counts of a pass in progress add up to the files it has taken, and
\* every row added to the sync log has files_processed <= files_synced and
\* files_processed plus the failures of its pass = files_synced
C30_Accounting ==
    /\ [](\A p \in Passes :
             (p.kind # "none" /\ p.i >= 1) => p.processed + FailuresOf(p) = p.i - 1)
    /\ [][/\ AccountsFile(main, main')
          /\ \A t \in DOMAIN threads : AccountsFile(threads[t], threads'[t])
          /\ Len(drive_sync_log') > Len(drive_sync_log) =>
                 LET row == drive_sync_log'[Len(drive_sync_log')]
                 IN  /\ row.files_processed <= row.files_synced
                     /\ \/ row.files_synced = 0 /\ row.files_processed = 0
                        \/ \E p \in Passes : CountsOf(row, p)]_vars

\* C30 witness: a row of a pass over three files of which one failed
C30_Witness ==
    \E k \in 1..Len(drive_sync_log) :
        /\ drive_sync_log[k].files_synced = 3
        /\ drive_sync_log[k].files_processed = 2
        /\ Len(drive_sync_log[k].errors) = 1

====
